---- MODULE Spec2Model ----
(***************************************************************************)
(* Model of the signalset merge pipeline of repo-tools/signalsets:         *)
(*   utils.py      get_command_id, are_signals_equal, replace_signal_prefix,*)
(*                 extract_year_range_from_filename, calculate_hash        *)
(*   processor.py  process_signalsets, merge_signalsets,                   *)
(*                 ensure_unique_signal_ids                                *)
(*   extractor.py  extract_data                                            *)
(*   provenance.py generate_provenance_report                              *)
(*                                                                         *)
(* Python values are represented as follows.                               *)
(*   str   a sequence of one-character strings ('' is <<>>), so that       *)
(*         formatting (f"{id}_V{n}") and searching (find('_')) are         *)
(*         computed and not assumed                                        *)
(*   dict  a function whose domain is the set of keys; a dict whose        *)
(*         iteration order is observed is a record [keys, map]             *)
(*   list  a sequence                                                      *)
(*   None  the one-element sequence <<"None">>, which is no str            *)
(***************************************************************************)
EXTENDS Integers, Sequences, FiniteSets, TLC

MaxEUCommands == 2     \* commands in a signalset passed to the enforcer
MaxEUSignals == 3      \* signals in a signalset passed to the enforcer

MaxFiles == 2          \* signalset files of the vehicle
MaxCommands == 2       \* commands in the vehicle's files, all together
MaxSignals == 3        \* signals in the vehicle's files, all together

MaxFields == 3         \* attributes of a signal passed to are_signals_equal
MaxIdLen == 4          \* characters of an id passed to replace_signal_prefix
MaxNameLen == 15       \* characters of a signalset file name

MaxRepos == 2          \* vehicle repositories in the workspace
MaxRepoFiles == 1      \* readable signalset files of one repository
MaxUnreadable == 1     \* unreadable signalset files in the workspace
MaxRunCommands == 2    \* commands in the workspace, all together
MaxRunSignals == 2     \* signals in the workspace, all together

MaxGroupRepos == 3     \* vehicle repositories of a fleet run with filters
MaxFilters == 2        \* priority filter prefixes of a run

MaxHashKeys == 2       \* keys of a document passed to calculate_hash

VARIABLES
    pc,                        \* extract_data: the step it is at
    workspace,                 \* repository name -> its signalset files
    filter_prefixes,           \* arguments of extract_data
    filter_prefix_exclusions,
    arg_signal_prefix,
    group_idx,                 \* locals of extract_data
    all_repos,
    repos_in_group,            \* the sorted names of the group still to merge
    repo_signalset,
    merged_signalset,
    global_signal_origins,
    global_command_origins,
    report_args,               \* what generate_provenance_report was given
    report,                    \* the report it returned
    force,                     \* argument of extract_data
    temp_output,               \* the file at temp_output_path
    final_output,              \* the file at final_output_path
    validator,                 \* how the validator step of this run went
    current_hash,
    change_status,             \* what the comparison with the old file printed
    previous_output,           \* final_output as it was when the run began
    merge_log,                 \* the per-vehicle merges of this run, in order
    run,                       \* 1 or 2: the first or the second run
    first_run,                 \* what the first run produced
    pv_pc,              \* process_signalsets harness: "build" | "returned"
    pv_loaded,          \* the (signalset_data, filename) pairs passed to it
    pv_prefix,          \* the signal_prefix passed to it
    pv_ret,             \* the signalset it returned
    eu_pc,          \* ensure_unique_signal_ids: "idle" | "build" | "returned"
    eu_arg,         \* the signalset as it was passed to ensure_unique_signal_ids
    eu_ret,         \* the signalset it returned
    ut_pc,          \* utils.py functions: "idle" | "build" | "returned"
    ut_signal1,     \* the arguments of are_signals_equal
    ut_signal2,
    ut_signal_id,   \* the arguments of replace_signal_prefix
    ut_new_prefix,
    ut_filename,    \* the name of the file a signal origin comes from
    ut_ret,         \* what the function returned
    ck_pc,          \* get_command_id, calculate_hash: "idle" | "build" | "returned"
    ck_cmd1,        \* the commands get_command_id is called with
    ck_cmd2,
    ck_data1,       \* the documents calculate_hash is called with
    ck_data2,
    ck_ret          \* what the calls returned

pv_vars == <<pv_pc, pv_loaded, pv_prefix, pv_ret>>
eu_vars == <<eu_pc, eu_arg, eu_ret>>
x_args == <<filter_prefixes, filter_prefix_exclusions, arg_signal_prefix, force>>
x_locals == <<group_idx, all_repos, repos_in_group, repo_signalset,
              merged_signalset, global_signal_origins, global_command_origins>>
x_out == <<report_args, report, temp_output, final_output, validator, current_hash,
           change_status>>
x_hist == <<previous_output, merge_log, run, first_run>>
x_vars == <<pc, workspace, x_args, x_locals, x_out, x_hist>>
ut_vars == <<ut_pc, ut_signal1, ut_signal2, ut_signal_id, ut_new_prefix,
             ut_filename, ut_ret>>
ck_vars == <<ck_pc, ck_cmd1, ck_cmd2, ck_data1, ck_data2, ck_ret>>
vars == <<x_vars, pv_vars, eu_vars, ut_vars, ck_vars>>

----------------------------------------------------------------------------
(* dict helpers *)

Has(d, k) == k \in DOMAIN d

Get(d, k, default) == IF k \in DOMAIN d THEN d[k] ELSE default

\* Python's None: a sequence that is no str (its element is no character)
None == <<"None">>

\* truthiness of a str or None
Truthy(s) == s # None /\ s # <<>>

Put(d, k, v) == [x \in (DOMAIN d) \cup {k} |-> IF x = k THEN v ELSE d[x]]

Del(d, k) == [x \in (DOMAIN d) \ {k} |-> d[x]]

\* insertion-ordered dict
ODEmpty == [keys |-> <<>>, map |-> <<>>]

ODHas(d, k) == k \in DOMAIN d.map

ODPut(d, k, v) ==
    [keys |-> IF ODHas(d, k) THEN d.keys ELSE Append(d.keys, k),
     map  |-> Put(d.map, k, v)]

Range(s) == {s[i] : i \in DOMAIN s}

----------------------------------------------------------------------------
(* str(n) for n >= 0 *)

DigitChars == <<"0", "1", "2", "3", "4", "5", "6", "7", "8", "9">>

RECURSIVE IntToStr(_)
IntToStr(n) ==
    IF n < 10 THEN <<DigitChars[n + 1]>>
    ELSE IntToStr(n \div 10) \o <<DigitChars[(n % 10) + 1]>>

----------------------------------------------------------------------------
(* utils.py *)

IsDigit(c) == \E d \in 1..10 : DigitChars[d] = c

DigitValue(c) == (CHOOSE d \in 1..10 : DigitChars[d] = c) - 1

\* int(s) for a str of digits
RECURSIVE StrToInt(_)
StrToInt(s) ==
    IF s = <<>> THEN 0
    ELSE 10 * StrToInt(SubSeq(s, 1, Len(s) - 1)) + DigitValue(s[Len(s)])

\* re.compile(r'(\d{4})-(\d{4})\.json$').search(filename): the pattern has a
\* fixed length of 14 and is anchored at the end, so it can match only the
\* last 14 characters; the result is None or <<start_year, end_year>>
extract_year_range_from_filename(filename) ==
    LET n == Len(filename)
        t == SubSeq(filename, n - 13, n)
    IN  IF /\ n >= 14
           /\ \A i \in 1..4 : IsDigit(t[i])
           /\ t[5] = "-"
           /\ \A i \in 6..9 : IsDigit(t[i])
           /\ SubSeq(t, 10, 14) = <<".", "j", "s", "o", "n">>
        THEN <<StrToInt(SubSeq(t, 1, 4)), StrToInt(SubSeq(t, 6, 9))>>
        ELSE None

\* variant: the position of the last underscore
FindUnderscoreLast(s) == CHOOSE i \in DOMAIN s : s[i] = "_" /\ \A j \in (i + 1)..Len(s) : s[j] # "_"

\* signal_id.find('_') for an id that contains '_' (1-based)
FindUnderscore(s) == CHOOSE i \in DOMAIN s : s[i] = "_" /\ \A j \in 1..(i - 1) : s[j] # "_"

replace_signal_prefix(signal_id, new_prefix) ==
    IF ~Truthy(signal_id) \/ ~Truthy(new_prefix) THEN signal_id
    ELSE IF \E i \in DOMAIN signal_id : signal_id[i] = "_"
         THEN new_prefix \o SubSeq(signal_id, FindUnderscore(signal_id), Len(signal_id))
         ELSE new_prefix \o <<"_">> \o signal_id

exclude_fields == {"id", "name", "description", "path", "comment"}

\* the copy of a signal with the excluded fields popped
CompareForm(signal) == [f \in (DOMAIN signal) \ exclude_fields |-> signal[f]]

\* variant: only the id is left out of the comparison
are_signals_equal_id_only(signal1, signal2) ==
    Del(signal1, "id") = Del(signal2, "id")

\* The attributes a signal of the model may carry, in the order of
\* sort_keys=True (code point order of the names), with the characters of the
\* name and the kind of JSON value the attribute holds
SignalFields ==
    <<[key |-> "comment",     chars |-> <<"c", "o", "m", "m", "e", "n", "t">>, kind |-> "str"],
      [key |-> "description", chars |-> <<"d", "e", "s", "c", "r", "i", "p", "t", "i", "o", "n">>, kind |-> "str"],
      [key |-> "fmt",         chars |-> <<"f", "m", "t">>, kind |-> "int"],
      [key |-> "format",      chars |-> <<"f", "o", "r", "m", "a", "t">>, kind |-> "object"],
      [key |-> "id",          chars |-> <<"i", "d">>, kind |-> "str"],
      [key |-> "name",        chars |-> <<"n", "a", "m", "e">>, kind |-> "str"],
      [key |-> "path",        chars |-> <<"p", "a", "t", "h">>, kind |-> "str"],
      [key |-> "unit",        chars |-> <<"u", "n", "i", "t">>, kind |-> "str"]>>

\* the keys of the nested format block, in the order of sort_keys=True
FormatFields ==
    <<[key |-> "len", chars |-> <<"l", "e", "n">>, kind |-> "int"],
      [key |-> "max", chars |-> <<"m", "a", "x">>, kind |-> "int"]>>

\* json.dumps of a str without characters to escape
JsonStr(s) == <<"\"">> \o s \o <<"\"">>

\* variant: a nested object is written without its members
JsonValueFlat(kind, v) ==
    IF kind = "str" THEN JsonStr(v)
    ELSE IF kind = "int" THEN IntToStr(v)
    ELSE <<"{", "}">>

\* json.dumps(obj, sort_keys=True) of an object whose keys are among fields:
\* "{" + ", ".join('"key": value') + "}"; started says that a member was
\* written before position i
RECURSIVE JsonMembers(_, _, _, _)
JsonValue(kind, v) ==
    IF kind = "str" THEN JsonStr(v)
    ELSE IF kind = "int" THEN IntToStr(v)
    ELSE <<"{">> \o JsonMembers(v, FormatFields, 1, FALSE) \o <<"}">>

JsonMembers(obj, fields, i, started) ==
    IF i > Len(fields) THEN <<>>
    ELSE IF fields[i].key \notin DOMAIN obj
         THEN JsonMembers(obj, fields, i + 1, started)
         ELSE (IF started THEN <<",", " ">> ELSE <<>>)
              \o JsonStr(fields[i].chars) \o <<":", " ">>
              \o JsonValue(fields[i].kind, obj[fields[i].key])
              \o JsonMembers(obj, fields, i + 1, TRUE)

\* json.dumps(signal, sort_keys=True)
DumpsSignal(signal) == <<"{">> \o JsonMembers(signal, SignalFields, 1, FALSE) \o <<"}">>

\* json.dumps(s1_compare, sort_keys=True) == json.dumps(s2_compare, sort_keys=True)
are_signals_equal(signal1, signal2) ==
    DumpsSignal(CompareForm(signal1)) = DumpsSignal(CompareForm(signal2))

\* json.dumps of a mapping from str to str, given as its items in key order
RECURSIVE JsonItems(_, _)
JsonItems(items, i) ==
    IF i > Len(items) THEN <<>>
    ELSE (IF i > 1 THEN <<",", " ">> ELSE <<>>)
         \o <<"\"">> \o items[i][1] \o <<"\"", ":", " ", "\"">> \o items[i][2] \o <<"\"">>
         \o JsonItems(items, i + 1)

json_dumps(mapping) == <<"{">> \o JsonItems(mapping, 1) \o <<"}">>

\* list(cmd.get('cmd', {}).keys())[0] if cmd.get('cmd') else ''
ServiceId(cmd) ==
    IF Has(cmd, "cmd") /\ cmd["cmd"] # <<>> THEN cmd["cmd"][1][1] ELSE <<>>

\* variant: every command that names a service is aggregated
IsAggregatedAny(sid) == sid # <<>>

\* not (sid != '21' and sid != '22')
IsAggregated(sid) == ~(sid # <<"2", "1">> /\ sid # <<"2", "2">>)

\* f"{hdr}:{eax}:{sid}:{pid}:{filter_str}", or None
get_command_id(cmd) ==
    LET hdr == Get(cmd, "hdr", <<>>)
        eax == Get(cmd, "eax", <<>>)
        sid == ServiceId(cmd)
    IN  IF ~IsAggregated(sid) THEN None
        ELSE LET pid == cmd["cmd"][1][2]
                 filter_str == IF Has(cmd, "filter")
                               THEN json_dumps(cmd["filter"]) ELSE <<>>
             IN  hdr \o <<":">> \o eax \o <<":">> \o sid \o <<":">>
                     \o pid \o <<":">> \o filter_str

----------------------------------------------------------------------------
(* processor.py: process_signalsets *)

\* source_info of one loaded file
SourceInfo(filename, make, model) ==
    LET base  == [file |-> filename, make |-> make, model |-> model,
                  repo |-> make \o <<"-">> \o model]
        years == extract_year_range_from_filename(filename)
    IN  IF years # None
        THEN Put(base, "yearRange", [start |-> years[1], end |-> years[2]])
        ELSE base

\* variant: an equal definition from another file is recorded as a source
RecordSourceEveryFile(signal_origins, base_id, source_info) ==
    IF Has(signal_origins, base_id)
    THEN IF source_info["file"] \notin
                {src["file"] : src \in Range(signal_origins[base_id])}
         THEN Put(signal_origins, base_id,
                  Append(signal_origins[base_id], source_info))
         ELSE signal_origins
    ELSE signal_origins

\* "Record this repo as a source for the signal"
RecordSource(signal_origins, base_id, source_info) ==
    IF Has(signal_origins, base_id)
    THEN IF source_info["repo"] \notin
                {src["repo"] : src \in Range(signal_origins[base_id])}
         THEN Put(signal_origins, base_id,
                  Append(signal_origins[base_id], source_info))
         ELSE signal_origins
    ELSE signal_origins

\* variant: the source of the new definition is added to the old sources
ResetOriginsAppend(signal_origins, base_id, source_info) ==
    Put(signal_origins, base_id,
        Append(Get(signal_origins, base_id, <<>>), source_info))

\* "Record origin of this versioned signal": signal_origins[base_id] = [source_info]
ResetOrigins(signal_origins, base_id, source_info) ==
    Put(signal_origins, base_id, <<source_info>>)

\* variant: an equal definition is dropped wherever it was used before
KeepEqualSignalNever(signal_already_in_command) == FALSE

\* `if not signal_already_in_command: new_signals.append(signal)`
KeepEqualSignal(signal_already_in_command) == ~signal_already_in_command

\* one iteration of `for signal in cmd['signals']`;
\* ps = [signal_registry, signal_origins, signal_command_usage, new_signals]
PSSignal(ps, cmd_id, signal, source_info, signal_prefix) ==
    LET original_id == Get(signal, "id", <<>>)
    IN  IF ~Truthy(original_id)
        THEN [ps EXCEPT !.new_signals = Append(@, signal)]
        ELSE
        LET base_id == IF Truthy(signal_prefix)
                       THEN replace_signal_prefix(original_id, signal_prefix)
                       ELSE original_id
            sig     == Put(signal, "id", base_id)
            usage   == IF ~Has(ps.signal_command_usage, base_id)
                       THEN Put(ps.signal_command_usage, base_id, {})
                       ELSE ps.signal_command_usage
            signal_already_in_command == cmd_id \in usage[base_id]
            used    == Put(usage, base_id, usage[base_id] \cup {cmd_id})
        IN  IF Has(ps.signal_registry, base_id)
            THEN IF are_signals_equal(sig, ps.signal_registry[base_id])
                 THEN [signal_registry |-> ps.signal_registry,
                       signal_command_usage |-> used,
                       signal_origins |->
                           RecordSource(ps.signal_origins, base_id, source_info),
                       new_signals |->
                           IF KeepEqualSignal(signal_already_in_command)
                           THEN Append(ps.new_signals, sig)
                           ELSE ps.new_signals]
                 ELSE [signal_registry |-> Put(ps.signal_registry, base_id, sig),
                       signal_command_usage |-> used,
                       signal_origins |->
                           ResetOrigins(ps.signal_origins, base_id, source_info),
                       new_signals |-> Append(ps.new_signals, sig)]
            ELSE [signal_registry |-> Put(ps.signal_registry, base_id, sig),
                  signal_command_usage |-> used,
                  signal_origins |->
                      Put(ps.signal_origins, base_id, <<source_info>>),
                  new_signals |-> Append(ps.new_signals, sig)]

RECURSIVE PSSignals(_, _, _, _, _, _)
PSSignals(ps, cmd_id, signals, source_info, signal_prefix, i) ==
    IF i > Len(signals) THEN ps
    ELSE PSSignals(PSSignal(ps, cmd_id, signals[i], source_info, signal_prefix),
                   cmd_id, signals, source_info, signal_prefix, i + 1)

\* the ids under a command: {s.get('id') for s in cmd.get('signals', [])}
SignalIds(cmd) == {Get(s, "id", None) : s \in Range(Get(cmd, "signals", <<>>))}

\* variant: a command whose key exists already contributes no signal
MergeKeepExisting(existing_cmd, cmd) == existing_cmd

\* variant: every signal of the later command is appended
MergeAppendAll(existing_cmd, cmd) ==
    IF Get(cmd, "signals", <<>>) = <<>> THEN existing_cmd
    ELSE Put(existing_cmd, "signals",
             Get(existing_cmd, "signals", <<>>) \o cmd["signals"])

\* `for signal in cmd.get('signals', []): if signal_id not in existing_signals:
\*      existing_cmd.setdefault('signals', []).append(signal)`
\* (existing_signals is computed once, before the loop)
MergeIntoExisting(existing_cmd, cmd) ==
    LET existing_signals == SignalIds(existing_cmd)
        added == SelectSeq(Get(cmd, "signals", <<>>),
                           LAMBDA s : Get(s, "id", None) \notin existing_signals)
    IN  IF added = <<>> THEN existing_cmd
        ELSE Put(existing_cmd, "signals",
                 Get(existing_cmd, "signals", <<>>) \o added)

\* one iteration of `for cmd in signalset_data.get('commands', [])`;
\* st = [commands, command_map, signal_registry, signal_origins,
\*       signal_command_usage]; command_map maps a command id to the position
\* in commands of the command object it refers to
PSCommand(st, cmd, source_info, signal_prefix) ==
    LET cmd_id == get_command_id(cmd)
    IN  IF cmd_id = None THEN st
        ELSE
        LET with_dbg == IF ~Has(cmd, "dbg") THEN Put(cmd, "dbg", TRUE) ELSE cmd
            no_filter == IF Has(with_dbg, "dbgfilter")
                         THEN Del(with_dbg, "dbgfilter") ELSE with_dbg
            ps0 == [signal_registry |-> st.signal_registry,
                    signal_origins |-> st.signal_origins,
                    signal_command_usage |-> st.signal_command_usage,
                    new_signals |-> <<>>]
            ps  == IF Has(no_filter, "signals")
                   THEN PSSignals(ps0, cmd_id, no_filter["signals"],
                                  source_info, signal_prefix, 1)
                   ELSE ps0
            new_cmd == IF Has(no_filter, "signals")
                       THEN Put(no_filter, "signals", ps.new_signals)
                       ELSE no_filter
        IN  [signal_registry |-> ps.signal_registry,
             signal_origins |-> ps.signal_origins,
             signal_command_usage |-> ps.signal_command_usage,
             commands |->
                 IF Has(st.command_map, cmd_id)
                 THEN [st.commands EXCEPT ![st.command_map[cmd_id]] =
                           MergeIntoExisting(@, new_cmd)]
                 ELSE Append(st.commands, new_cmd),
             command_map |->
                 IF Has(st.command_map, cmd_id) THEN st.command_map
                 ELSE Put(st.command_map, cmd_id, Len(st.commands) + 1)]

RECURSIVE PSCommands(_, _, _, _, _)
PSCommands(st, commands, source_info, signal_prefix, i) ==
    IF i > Len(commands) THEN st
    ELSE PSCommands(PSCommand(st, commands[i], source_info, signal_prefix),
                    commands, source_info, signal_prefix, i + 1)

\* `for signalset_data, filename in loaded_signalsets`
RECURSIVE PSFiles(_, _, _, _, _, _)
PSFiles(st, loaded_signalsets, make, model, signal_prefix, i) ==
    IF i > Len(loaded_signalsets) THEN st
    ELSE PSFiles(PSCommands(st,
                            Get(loaded_signalsets[i][1], "commands", <<>>),
                            SourceInfo(loaded_signalsets[i][2], make, model),
                            signal_prefix, 1),
                 loaded_signalsets, make, model, signal_prefix, i + 1)

\* the locals of process_signalsets when the loop over loaded_signalsets ends
PSLocals(loaded_signalsets, make, model, signal_prefix) ==
    PSFiles([commands |-> <<>>, command_map |-> <<>>,
             signal_registry |-> <<>>, signal_origins |-> <<>>,
             signal_command_usage |-> <<>>],
            loaded_signalsets, make, model, signal_prefix, 1)

process_signalsets(loaded_signalsets, make, model, signal_prefix) ==
    LET st == PSLocals(loaded_signalsets, make, model, signal_prefix)
    IN  [commands |-> st.commands, _signal_origins |-> st.signal_origins]

----------------------------------------------------------------------------
(* processor.py: ensure_unique_signal_ids *)

\* variant: the version is the number of earlier occurrences
VersionedIdOffByOne(original_id, version) ==
    original_id \o <<"_", "V">> \o IntToStr(version - 1)

\* f"{original_id}_V{version}"
VersionedId(original_id, version) ==
    original_id \o <<"_", "V">> \o IntToStr(version)

\* variant: a signal without an id is not kept
EUSignalIdOnly(st, signal) ==
    IF ~Has(signal, "id")
    THEN st
    ELSE
        LET original_id    == signal["id"]
            comparison_def == Del(signal, "id")
        IN  IF ODHas(st.reg, original_id)
            THEN LET version      == Len(st.reg.map[original_id]) + 1
                     versioned_id == VersionedId(original_id, version)
                 IN  [reg |-> ODPut(st.reg, original_id,
                                    Append(st.reg.map[original_id],
                                           <<versioned_id, comparison_def>>)),
                      new_signals |-> Append(st.new_signals,
                                             Put(signal, "id", versioned_id))]
            ELSE [reg |-> ODPut(st.reg, original_id,
                                <<<<original_id, comparison_def>>>>),
                  new_signals |-> Append(st.new_signals, signal)]

\* one iteration of `for signal in cmd["signals"]`; st = [reg, new_signals]
EUSignal(st, signal) ==
    IF ~Has(signal, "id")
    THEN [reg |-> st.reg, new_signals |-> Append(st.new_signals, signal)]
    ELSE
        LET original_id    == signal["id"]
            comparison_def == Del(signal, "id")
        IN  IF ODHas(st.reg, original_id)
            THEN LET version      == Len(st.reg.map[original_id]) + 1
                     versioned_id == VersionedId(original_id, version)
                 IN  [reg |-> ODPut(st.reg, original_id,
                                    Append(st.reg.map[original_id],
                                           <<versioned_id, comparison_def>>)),
                      new_signals |-> Append(st.new_signals,
                                             Put(signal, "id", versioned_id))]
            ELSE [reg |-> ODPut(st.reg, original_id,
                                <<<<original_id, comparison_def>>>>),
                  new_signals |-> Append(st.new_signals, signal)]

RECURSIVE EUSignals(_, _, _)
EUSignals(st, signals, i) ==
    IF i > Len(signals) THEN st
    ELSE EUSignals(EUSignal(st, signals[i]), signals, i + 1)

\* one iteration of `for cmd in merged_signalset.get("commands", [])`;
\* st = [reg, commands]
EUCommand(st, cmd) ==
    IF ~Has(cmd, "signals")
    THEN [reg |-> st.reg, commands |-> Append(st.commands, cmd)]
    ELSE LET r == EUSignals([reg |-> st.reg, new_signals |-> <<>>],
                            cmd["signals"], 1)
         IN  [reg |-> r.reg,
              commands |-> Append(st.commands,
                                  Put(cmd, "signals", r.new_signals))]

RECURSIVE EUCommands(_, _, _)
EUCommands(st, commands, i) ==
    IF i > Len(commands) THEN st
    ELSE EUCommands(EUCommand(st, commands[i]), commands, i + 1)

\* `for versioned_id, _ in versions: new_origins[versioned_id] = origins[original_id]`
RECURSIVE EUCopyOrigins(_, _, _, _)
EUCopyOrigins(new_origins, versions, sources, j) ==
    IF j > Len(versions) THEN new_origins
    ELSE EUCopyOrigins(Put(new_origins, versions[j][1], sources),
                       versions, sources, j + 1)

\* `for original_id, versions in signal_registry.items()`
RECURSIVE EUNewOrigins(_, _, _, _)
EUNewOrigins(new_origins, reg, origins, i) ==
    IF i > Len(reg.keys) THEN new_origins
    ELSE LET original_id == reg.keys[i]
         IN  EUNewOrigins(
                 IF Has(origins, original_id)
                 THEN EUCopyOrigins(new_origins, reg.map[original_id],
                                    origins[original_id], 1)
                 ELSE new_origins,
                 reg, origins, i + 1)

ensure_unique_signal_ids(signalset) ==
    LET r == EUCommands([reg |-> ODEmpty, commands |-> <<>>],
                        Get(signalset, "commands", <<>>), 1)
        m == IF Has(signalset, "commands")
             THEN Put(signalset, "commands", r.commands)
             ELSE signalset
    IN  IF Has(m, "_signal_origins")
        THEN Put(m, "_signal_origins",
                 EUNewOrigins(<<>>, r.reg, m["_signal_origins"], 1))
        ELSE m

----------------------------------------------------------------------------
(* processor.py: merge_signalsets *)

\* variant: loading stops at the first file that cannot be read
RECURSIVE LoadFilesUntilError(_, _)
LoadFilesUntilError(signalset_files, i) ==
    IF i > Len(signalset_files) \/ ~Has(signalset_files[i], "json") THEN <<>>
    ELSE << <<signalset_files[i]["json"], signalset_files[i]["name"]>> >>
         \o LoadFilesUntilError(signalset_files, i + 1)

\* a file of the workspace is [name, json]; a file that cannot be opened or
\* parsed has no json
RECURSIVE LoadFiles(_, _)
LoadFiles(signalset_files, i) ==
    IF i > Len(signalset_files) THEN <<>>
    ELSE (IF Has(signalset_files[i], "json")
          THEN << <<signalset_files[i]["json"], signalset_files[i]["name"]>> >>
          ELSE <<>>)
         \o LoadFiles(signalset_files, i + 1)

merge_signalsets(signalset_files, make, model, signal_prefix) ==
    process_signalsets(LoadFiles(signalset_files, 1), make, model, signal_prefix)

----------------------------------------------------------------------------
(* extractor.py: extract_data *)

\* the characters of the model in code point order, for str comparison
CodePoints ==
    <<"-", ".", "0", "1", "2", "3", "4", "5", "6", "7", "8", "9",
      "A", "B", "C", "D", "E", "F", "G", "H", "I", "J", "K", "L", "M",
      "N", "O", "P", "Q", "R", "S", "T", "U", "V", "W", "X", "Y", "Z", "_",
      "a", "b", "c", "d", "e", "f", "g", "h", "i", "j", "k", "l", "m",
      "n", "o", "p", "q", "r", "s", "t", "u", "v", "w", "x", "y", "z">>

Ord(c) == CHOOSE i \in DOMAIN CodePoints : CodePoints[i] = c

\* a < b for str
RECURSIVE StrLess(_, _)
StrLess(a, b) ==
    IF a = <<>> THEN b # <<>>
    ELSE IF b = <<>> THEN FALSE
    ELSE IF a[1] = b[1] THEN StrLess(Tail(a), Tail(b))
    ELSE Ord(a[1]) < Ord(b[1])

\* variant: sorted(names, reverse=True)
RECURSIVE SortedNamesDescending(_)
SortedNamesDescending(names) ==
    IF names = {} THEN <<>>
    ELSE LET m == CHOOSE x \in names : \A y \in names \ {x} : StrLess(y, x)
         IN  <<m>> \o SortedNamesDescending(names \ {m})

\* sorted(names)
RECURSIVE SortedNames(_)
SortedNames(names) ==
    IF names = {} THEN <<>>
    ELSE LET m == CHOOSE x \in names : \A y \in names \ {x} : StrLess(x, y)
         IN  <<m>> \o SortedNames(names \ {m})

\* name.startswith(prefix)
StartsWith(name, prefix) ==
    Len(prefix) <= Len(name) /\ SubSeq(name, 1, Len(prefix)) = prefix

\* any(name.startswith(prefix) for prefix in prefixes)
StartsWithAny(name, prefixes) ==
    \E i \in DOMAIN prefixes : StartsWith(name, prefixes[i])

\* repo_dir.name.split('-', 1) if '-' in repo_dir.name else (repo_dir.name, '')
SplitMakeModel(name) ==
    IF \E i \in DOMAIN name : name[i] = "-"
    THEN LET i == CHOOSE x \in DOMAIN name :
                      name[x] = "-" /\ \A y \in 1..(x - 1) : name[y] # "-"
         IN  <<SubSeq(name, 1, i - 1), SubSeq(name, i + 1, Len(name))>>
    ELSE <<name, <<>>>>

\* repo_groups: one group per filter, or a single group with no filter
\* (an absent list of prefixes is the empty list: the code tests both with `not`)
RepoGroups(prefixes) ==
    IF prefixes = <<>> THEN << <<>> >>
    ELSE [i \in DOMAIN prefixes |-> <<prefixes[i]>>]

\* variant: the exclusions apply only when there is no inclusion filter
ReposInGroupIncluded(ws, group_filters, exclusions, seen) ==
    {name \in DOMAIN ws :
        /\ group_filters = <<>> \/ StartsWithAny(name, group_filters)
        /\ ~(group_filters = <<>> /\ exclusions # <<>>
                /\ StartsWithAny(name, exclusions))
        /\ name \notin DOMAIN seen
        /\ ws[name] # <<>>}

\* variant: a group takes every matching repository, seen before or not
ReposInGroupAgain(ws, group_filters, exclusions, seen) ==
    {name \in DOMAIN ws :
        /\ group_filters = <<>> \/ StartsWithAny(name, group_filters)
        /\ ~(exclusions # <<>> /\ StartsWithAny(name, exclusions))
        /\ ws[name] # <<>>}

\* the repositories the scan of one filter group puts into repos_in_group
\* (every entry of the workspace is a directory that has signalsets/v3)
ReposInGroup(ws, group_filters, exclusions, seen) ==
    {name \in DOMAIN ws :
        /\ group_filters = <<>> \/ StartsWithAny(name, group_filters)
        /\ ~(exclusions # <<>> /\ StartsWithAny(name, exclusions))
        /\ name \notin DOMAIN seen
        /\ ws[name] # <<>>}

\* the entry of all_repos for a repository of the group
RepoData(ws, name, priority) ==
    [files |-> ws[name], make |-> SplitMakeModel(name)[1],
     model |-> SplitMakeModel(name)[2], priority |-> priority]

\* global_signal_origins[signal_id].extend(sources), for every signal_id
ExtendSignalOrigins(global_origins, repo_origins) ==
    [id \in (DOMAIN global_origins) \cup (DOMAIN repo_origins) |->
        Get(global_origins, id, <<>>) \o Get(repo_origins, id, <<>>)]

\* the command id extract_data computes in line; None for a skipped command
XCommandId(cmd) ==
    LET hdr == Get(cmd, "hdr", <<>>)
        eax == Get(cmd, "eax", <<>>)
        sid == ServiceId(cmd)
    IN  IF sid # <<"2", "1">> /\ sid # <<"2", "2">> THEN None
        ELSE LET pid == cmd["cmd"][1][2]
                 filter == IF Has(cmd, "filter")
                           THEN json_dumps(cmd["filter"]) ELSE <<>>
             IN  hdr \o <<":">> \o eax \o <<":">> \o sid \o <<":">>
                     \o pid \o <<":">> \o filter

\* "Process and track commands from this repo"
RECURSIVE TrackCommandOrigins(_, _, _, _, _)
TrackCommandOrigins(cmd_origins, commands, repo_name, repo_data, i) ==
    IF i > Len(commands) THEN cmd_origins
    ELSE LET cmd    == commands[i]
             cmd_id == XCommandId(cmd)
             cmd_source ==
                 [repo |-> repo_name, make |-> repo_data.make,
                  model |-> repo_data.model,
                  description |-> Get(cmd, "description", <<>>),
                  file |-> <<"c", "o", "m", "b", "i", "n", "e", "d">>,
                  priority |-> repo_data.priority]
             sources == Get(cmd_origins, cmd_id, <<>>)
         IN  TrackCommandOrigins(
                 IF cmd_id = None THEN cmd_origins
                 ELSE IF \E n \in DOMAIN sources : sources[n]["repo"] = repo_name
                      THEN Put(cmd_origins, cmd_id, sources)
                      ELSE Put(cmd_origins, cmd_id, Append(sources, cmd_source)),
                 commands, repo_name, repo_data, i + 1)

\* command_map after "Create a mapping of command IDs to commands in the
\* merged signalset": the loop computes cmd_id for every command and stores
\* nothing, so the mapping stays {}
CommandMap(commands) == <<>>

\* "Add any new signals from this command"
RECURSIVE XMergeSignals(_, _, _, _)
XMergeSignals(existing_cmd, existing_signal_ids, signals, i) ==
    IF i > Len(signals) THEN existing_cmd
    ELSE LET signal_id == Get(signals[i], "id", None)
         IN  IF Truthy(signal_id) /\ signal_id \notin existing_signal_ids
             THEN XMergeSignals(
                      Put(existing_cmd, "signals",
                          Append(Get(existing_cmd, "signals", <<>>), signals[i])),
                      existing_signal_ids \cup {signal_id}, signals, i + 1)
             ELSE XMergeSignals(existing_cmd, existing_signal_ids, signals, i + 1)

\* "Add commands or merge signals for existing commands"
RECURSIVE XMergeCommands(_, _, _, _)
XMergeCommands(commands, command_map, repo_commands, i) ==
    IF i > Len(repo_commands) THEN commands
    ELSE LET cmd    == repo_commands[i]
             cmd_id == XCommandId(cmd)
         IN  XMergeCommands(
                 IF cmd_id = None THEN commands
                 ELSE IF Has(command_map, cmd_id)
                      THEN [commands EXCEPT ![command_map[cmd_id]] =
                               XMergeSignals(@, SignalIds(@),
                                             Get(cmd, "signals", <<>>), 1)]
                      ELSE Append(commands, cmd),
                 command_map, repo_commands, i + 1)

----------------------------------------------------------------------------
(* provenance.py: generate_provenance_report *)

\* report["repoContributions"][repo_name] of a repository seen for the first
\* time; the lists 'signals' and 'commands' never hold an id twice and are
\* kept as sets, signalCount and commandCount being their sizes
NewContribution(source) ==
    [make |-> source["make"], model |-> source["model"],
     signals |-> {}, commands |-> {}]

\* `for source in sources`: "Track contribution counts by repository", for
\* one signal id (field "signals") or one command id (field "commands")
RECURSIVE TrackContributions(_, _, _, _, _)
TrackContributions(contributions, field, id, sources, i) ==
    IF i > Len(sources) THEN contributions
    ELSE LET repo_name == sources[i]["repo"]
             entry == IF Has(contributions, repo_name)
                      THEN contributions[repo_name]
                      ELSE NewContribution(sources[i])
         IN  TrackContributions(
                 Put(contributions, repo_name,
                     [entry EXCEPT ![field] = @ \cup {id}]),
                 field, id, sources, i + 1)

\* `for signal_id, sources in signal_origins.items()` and
\* `for cmd_id, sources in cmd_origins.items()`, over the ids still to visit
RECURSIVE TrackOrigins(_, _, _, _)
TrackOrigins(contributions, field, origins, ids) ==
    IF ids = {} THEN contributions
    ELSE LET id == CHOOSE x \in ids : TRUE
         IN  TrackOrigins(
                 TrackContributions(contributions, field, id, origins[id], 1),
                 field, origins, ids \ {id})

\* the report: the totals and the contributions by repository
generate_provenance_report(signal_origins, cmd_origins) ==
    [signalCount |-> Cardinality(DOMAIN signal_origins),
     commandCount |-> Cardinality(DOMAIN cmd_origins),
     repoContributions |->
         TrackOrigins(TrackOrigins(<<>>, "signals", signal_origins,
                                   DOMAIN signal_origins),
                      "commands", cmd_origins, DOMAIN cmd_origins)]

----------------------------------------------------------------------------
(* utils.py: calculate_hash, and the files extract_data writes *)

\* the items of a mapping in the order of sort_keys=True
RECURSIVE SortedItems(_)
SortedItems(items) ==
    IF items = <<>> THEN <<>>
    ELSE LET m == CHOOSE i \in DOMAIN items :
                      \A j \in DOMAIN items : ~StrLess(items[j][1], items[i][1])
         IN  <<items[m]>>
             \o SortedItems(SubSeq(items, 1, m - 1) \o SubSeq(items, m + 1, Len(items)))

\* ", ".join(texts)
RECURSIVE JoinComma(_, _)
JoinComma(texts, i) ==
    IF i > Len(texts) THEN <<>>
    ELSE (IF i > 1 THEN <<",", " ">> ELSE <<>>) \o texts[i] \o JoinComma(texts, i + 1)

\* '"key": value'
JsonMember(key, text) == JsonStr(key) \o <<":", " ">> \o text

JsonBool(b) == IF b THEN <<"t", "r", "u", "e">> ELSE <<"f", "a", "l", "s", "e">>

\* A Python value that json.dumps is given: a str, an int, a bool, a list of
\* values, or a dict given as its items <<key, value>> in the order of the
\* dict (its insertion order); the value is the pair of its type and its content
JStr(s)  == <<"str", s>>
JInt(n)  == <<"int", n>>
JBool(b) == <<"bool", b>>
JList(values) == <<"list", values>>
JDict(items)  == <<"dict", items>>

\* variant: the items of a mapping in the order of the dict
UnsortedItems(items) == items

\* the items of a mapping in the order json.dumps writes them
DumpOrder(items) == SortedItems(items)

\* json.dumps(data, sort_keys=True)
RECURSIVE JsonDumps(_)
JsonDumps(value) ==
    CASE value[1] = "str"  -> JsonStr(value[2])
      [] value[1] = "int"  -> IntToStr(value[2])
      [] value[1] = "bool" -> JsonBool(value[2])
      [] value[1] = "list" ->
             <<"[">> \o JoinComma([i \in DOMAIN value[2] |-> JsonDumps(value[2][i])], 1)
             \o <<"]">>
      [] value[1] = "dict" ->
             LET items == DumpOrder(value[2])
             IN  <<"{">>
                 \o JoinComma([i \in DOMAIN items |->
                                  JsonMember(items[i][1], JsonDumps(items[i][2]))], 1)
                 \o <<"}">>

\* hashlib.sha256(data_str.encode()).hexdigest(): the digest is represented by
\* the text it is taken of (no two texts of the model collide)
calculate_hash(data) == JsonDumps(data)

\* the dict of a mapping from str to str ('cmd', 'filter')
JsonOfItems(mapping) ==
    JDict([i \in DOMAIN mapping |-> <<mapping[i][1], JStr(mapping[i][2])>>])

\* the items of the attributes of fields that obj carries
RECURSIVE FieldItems(_, _, _)
FieldItems(obj, fields, i) ==
    IF i > Len(fields) THEN <<>>
    ELSE (IF fields[i].key \in DOMAIN obj
          THEN << <<fields[i].chars,
                    IF fields[i].kind = "str" THEN JStr(obj[fields[i].key])
                    ELSE IF fields[i].kind = "int" THEN JInt(obj[fields[i].key])
                    ELSE JDict(FieldItems(obj[fields[i].key], FormatFields, 1))>> >>
          ELSE <<>>)
         \o FieldItems(obj, fields, i + 1)

\* a signal of the model as the dict json.dumps is given
JsonOfSignal(signal) == JDict(FieldItems(signal, SignalFields, 1))

\* a command of the model as the dict json.dumps is given
JsonOfCommand(cmd) ==
    LET str(key, chars) ==
            IF Has(cmd, key) THEN << <<chars, JStr(cmd[key])>> >> ELSE <<>>
        map(key, chars) ==
            IF Has(cmd, key) THEN << <<chars, JsonOfItems(cmd[key])>> >> ELSE <<>>
    IN  JDict(str("hdr", <<"h", "d", "r">>)
              \o str("eax", <<"e", "a", "x">>)
              \o map("cmd", <<"c", "m", "d">>)
              \o map("filter", <<"f", "i", "l", "t", "e", "r">>)
              \o str("description", <<"d", "e", "s", "c", "r", "i", "p", "t", "i", "o", "n">>)
              \o (IF Has(cmd, "dbg")
                  THEN << <<(<<"d", "b", "g">>), JBool(cmd["dbg"])>> >> ELSE <<>>)
              \o str("dbgfilter", <<"d", "b", "g", "f", "i", "l", "t", "e", "r">>)
              \o (IF Has(cmd, "signals")
                  THEN << <<(<<"s", "i", "g", "n", "a", "l", "s">>),
                            JList([i \in DOMAIN cmd["signals"] |->
                                      JsonOfSignal(cmd["signals"][i])])>> >>
                  ELSE <<>>))

\* a signalset {"commands": [...]} of the model as the dict json.dumps is given
JsonOfSignalset(data) ==
    JDict(<< <<(<<"c", "o", "m", "m", "a", "n", "d", "s">>),
               JList([i \in DOMAIN data["commands"] |->
                         JsonOfCommand(data["commands"][i])])>> >>)

\* A file of the output directory: absent, or holding a JSON document.  The
\* document a file holds is what json.load gives for it; json.dump followed by
\* json.load gives back the lists, strs, ints and bools that were written.
AbsentFile == [exists |-> FALSE]

FileOf(data) == [exists |-> TRUE, data |-> data]

\* reversed(commands)
RECURSIVE Reversed(_)
Reversed(items) ==
    IF items = <<>> THEN <<>> ELSE Append(Reversed(Tail(items)), Head(items))

\* What validate_json.py may write to --output when it succeeds: the document
\* as it is, or a normalised document that lists the commands in another order
ValidatorOutputs(data) ==
    {data, [data EXCEPT !["commands"] = Reversed(@)]}

\* variant: the temporary file is copied and left in place
FallBackCopy(temp, final) == [temp |-> temp, final |-> temp]

\* shutil.move(temp_output_path, final_output_path)
FallBack(temp, final) == [temp |-> AbsentFile, final |-> temp]

\* os.remove(temp_output_path) after the validator wrote the final file
ValidatorWrote(temp, data) == [temp |-> AbsentFile, final |-> FileOf(data)]

\* variant: the locals of an earlier call are still there
CallLocalsKept(earlier) == earlier

\* merged_signalset, global_signal_origins and global_command_origins as
\* extract_data creates them at every call
CallLocals(earlier) ==
    [merged_signalset |-> [commands |-> <<>>],
     global_signal_origins |-> <<>>,
     global_command_origins |-> <<>>]

----------------------------------------------------------------------------
(* Inputs *)

IdX   == <<"X">>
IdXV2 == <<"X", "_", "V", "2">>

Hdr7E0 == <<"7", "E", "0">>
Hdr7E1 == <<"7", "E", "1">>
Sid22  == <<"2", "2">>
Sid01  == <<"0", "1">>
Pid0103 == <<"0", "1", "0", "3">>

\* {"22": "0103"}: a mapping in key order
Cmd22 == << <<Sid22, Pid0103>> >>
Cmd01 == << <<Sid01, Pid0103>> >>

FileA == <<"a", ".", "j", "s", "o", "n">>
FileB == <<"b", ".", "j", "s", "o", "n">>

EUSourceOf(id) ==
    [repo |-> <<"T", "-", "C">>, make |-> <<"T">>, model |-> <<"C">>,
     file |-> IF id = IdX THEN FileA ELSE FileB]

EUSignalInputs ==
    {[id |-> IdX, fmt |-> 1], [id |-> IdX, fmt |-> 2],
     [id |-> IdXV2, fmt |-> 1], [fmt |-> 1]}

EUCommandInputs ==
    {[hdr |-> Hdr7E0, cmd |-> Cmd22, signals |-> <<>>],
     [hdr |-> Hdr7E0, cmd |-> Cmd22]}

EUOriginInputs ==
    {[id \in D |-> <<EUSourceOf(id)>>] : D \in SUBSET {IdX, IdXV2}}

\* the signals of a command list, in document order
RECURSIVE AllSignals(_, _)
AllSignals(commands, i) ==
    IF i > Len(commands) THEN <<>>
    ELSE Get(commands[i], "signals", <<>>) \o AllSignals(commands, i + 1)

----------------------------------------------------------------------------
(* ensure_unique_signal_ids applied to an arbitrary signalset *)

EUIdle ==
    /\ eu_pc = "idle"
    /\ eu_arg = [commands |-> <<>>]
    /\ eu_ret = [commands |-> <<>>]

PVIdle ==
    /\ pv_pc = "idle"
    /\ pv_loaded = <<>>
    /\ pv_prefix = None
    /\ pv_ret = [commands |-> <<>>]

XIdle ==
    /\ pc = "idle"
    /\ workspace = <<>>
    /\ filter_prefixes = <<>>
    /\ filter_prefix_exclusions = <<>>
    /\ arg_signal_prefix = None
    /\ group_idx = 0
    /\ all_repos = <<>>
    /\ repos_in_group = <<>>
    /\ repo_signalset = [commands |-> <<>>]
    /\ merged_signalset = [commands |-> <<>>]
    /\ global_signal_origins = <<>>
    /\ global_command_origins = <<>>
    /\ report_args = <<>>
    /\ report = <<>>
    /\ force = FALSE
    /\ temp_output = AbsentFile
    /\ final_output = AbsentFile
    /\ validator = "none"
    /\ current_hash = <<>>
    /\ change_status = "none"
    /\ previous_output = AbsentFile
    /\ merge_log = <<>>
    /\ run = 1
    /\ first_run = <<>>

CKIdle ==
    /\ ck_pc = "idle"
    /\ ck_cmd1 = <<>>
    /\ ck_cmd2 = <<>>
    /\ ck_data1 = <<>>
    /\ ck_data2 = <<>>
    /\ ck_ret = <<>>

UTIdle ==
    /\ ut_pc = "idle"
    /\ ut_signal1 = <<>>
    /\ ut_signal2 = <<>>
    /\ ut_signal_id = <<>>
    /\ ut_new_prefix = <<>>
    /\ ut_filename = <<>>
    /\ ut_ret = <<>>

EUInit ==
    /\ eu_pc = "build"
    /\ eu_arg = [commands |-> <<>>]
    /\ eu_ret = [commands |-> <<>>]
    /\ PVIdle
    /\ XIdle
    /\ UTIdle
    /\ CKIdle

EUAddCommand ==
    /\ eu_pc = "build"
    /\ Len(eu_arg["commands"]) < MaxEUCommands
    /\ \E c \in EUCommandInputs :
           eu_arg' = Put(eu_arg, "commands", Append(eu_arg["commands"], c))
    /\ UNCHANGED <<eu_pc, eu_ret, pv_vars, x_vars, ut_vars, ck_vars>>

EUAddSignal ==
    /\ eu_pc = "build"
    /\ Len(AllSignals(eu_arg["commands"], 1)) < MaxEUSignals
    /\ LET n == Len(eu_arg["commands"])
       IN  /\ n > 0
           /\ Has(eu_arg["commands"][n], "signals")
           /\ \E s \in EUSignalInputs :
                  eu_arg' = Put(eu_arg, "commands",
                      [eu_arg["commands"] EXCEPT
                          ![n] = Put(@, "signals", Append(@["signals"], s))])
    /\ UNCHANGED <<eu_pc, eu_ret, pv_vars, x_vars, ut_vars, ck_vars>>

EUSetOrigins ==
    /\ eu_pc = "build"
    /\ ~Has(eu_arg, "_signal_origins")
    /\ \E o \in EUOriginInputs : eu_arg' = Put(eu_arg, "_signal_origins", o)
    /\ UNCHANGED <<eu_pc, eu_ret, pv_vars, x_vars, ut_vars, ck_vars>>

EUCall ==
    /\ eu_pc = "build"
    /\ eu_ret' = ensure_unique_signal_ids(eu_arg)
    /\ eu_pc' = "returned"
    /\ UNCHANGED <<eu_arg, pv_vars, x_vars, ut_vars, ck_vars>>

EUNext == EUAddCommand \/ EUAddSignal \/ EUSetOrigins \/ EUCall

SpecUnique == EUInit /\ [][EUNext]_vars

----------------------------------------------------------------------------
(* Claims about ensure_unique_signal_ids *)

EUIn  == AllSignals(eu_arg["commands"], 1)
EUOut == AllSignals(eu_ret["commands"], 1)

\* the number of occurrences of the identifier of in[p] among in[1..p]
Occurrence(in, p) ==
    Cardinality({q \in 1..p : Has(in[q], "id") /\ in[q]["id"] = in[p]["id"]})

\* C1: after ensure_unique_signal_ids no two signals of the output that carry
\* an id have the same id, for every input.
C1_AllIdsUnique ==
    eu_pc = "returned" =>
        \A p, q \in DOMAIN EUOut :
            (p # q /\ Has(EUOut[p], "id") /\ Has(EUOut[q], "id"))
                => EUOut[p]["id"] # EUOut[q]["id"]

C5_OriginsInherited ==
    (eu_pc = "returned" /\ Has(eu_arg, "_signal_origins")) =>
        \A p \in DOMAIN EUIn :
            (Has(EUIn[p], "id") /\ Has(eu_arg["_signal_origins"], EUIn[p]["id"]))
                => /\ Has(eu_ret["_signal_origins"], EUOut[p]["id"])
                   /\ eu_ret["_signal_origins"][EUOut[p]["id"]]
                          = eu_arg["_signal_origins"][EUIn[p]["id"]]

\* the identifiers of the input are pairwise distinct
AlreadyUnique ==
    \A p, q \in DOMAIN EUIn :
        (p # q /\ Has(EUIn[p], "id") /\ Has(EUIn[q], "id"))
            => EUIn[p]["id"] # EUIn[q]["id"]

----------------------------------------------------------------------------
(* process_signalsets applied to the files of one vehicle *)

IdAX == <<"A", "_", "X">>
IdBX == <<"B", "_", "X">>
IdTX == <<"T", "_", "X">>
PrefixT == <<"T">>
MakeT  == <<"T">>
ModelC == <<"C">>

\* A_X with two definitions, and B_X with the first definition under another
\* name: with the prefix T all three are T_X
PVSignalInputs ==
    {[id |-> IdAX, fmt |-> 1, name |-> <<"n">>],
     [id |-> IdAX, fmt |-> 2, name |-> <<"n">>],
     [id |-> IdBX, fmt |-> 1, name |-> <<"m">>]}

\* two service 22 commands with different keys and a service 01 command
PVCommandInputs ==
    {[hdr |-> Hdr7E0, cmd |-> Cmd22, signals |-> <<>>],
     [hdr |-> Hdr7E1, cmd |-> Cmd22, dbg |-> FALSE, dbgfilter |-> <<"f">>,
      signals |-> <<>>],
     [hdr |-> Hdr7E0, cmd |-> Cmd01, signals |-> <<>>]}

File2016 == <<"2", "0", "1", "6", "-", "2", "0", "2", "0", ".", "j", "s", "o", "n">>

\* the name of the i-th file of the vehicle
FileName(i) == IF i = 1 THEN File2016 ELSE IntToStr(i) \o <<".", "j", "s", "o", "n">>

\* the commands of all loaded files, in load order
RECURSIVE LoadedCommands(_, _)
LoadedCommands(loaded, i) ==
    IF i > Len(loaded) THEN <<>>
    ELSE loaded[i][1]["commands"] \o LoadedCommands(loaded, i + 1)

PVInit ==
    /\ pv_pc = "build"
    /\ pv_loaded = <<>>
    /\ pv_prefix = None
    /\ pv_ret = [commands |-> <<>>]
    /\ EUIdle
    /\ XIdle
    /\ UTIdle
    /\ CKIdle

PVLoadFile ==
    /\ pv_pc = "build"
    /\ Len(pv_loaded) < MaxFiles
    /\ pv_loaded' =
           Append(pv_loaded,
                  <<[commands |-> <<>>], FileName(Len(pv_loaded) + 1)>>)
    /\ UNCHANGED <<pv_pc, pv_prefix, pv_ret, eu_vars, x_vars, ut_vars, ck_vars>>

PVAddCommand ==
    /\ pv_pc = "build"
    /\ pv_loaded # <<>>
    /\ Len(LoadedCommands(pv_loaded, 1)) < MaxCommands
    /\ \E c \in PVCommandInputs :
           pv_loaded' =
               [pv_loaded EXCEPT ![Len(pv_loaded)][1] =
                   [commands |-> Append(@["commands"], c)]]
    /\ UNCHANGED <<pv_pc, pv_prefix, pv_ret, eu_vars, x_vars, ut_vars, ck_vars>>

PVAddSignal ==
    /\ pv_pc = "build"
    /\ pv_loaded # <<>>
    /\ Len(AllSignals(LoadedCommands(pv_loaded, 1), 1)) < MaxSignals
    /\ LET f == Len(pv_loaded)
           n == Len(pv_loaded[f][1]["commands"])
       IN  /\ n > 0
           /\ \E s \in PVSignalInputs :
                  pv_loaded' =
                      [pv_loaded EXCEPT ![f][1] =
                          [commands |-> [@["commands"] EXCEPT ![n] =
                              Put(@, "signals", Append(@["signals"], s))]]]
    /\ UNCHANGED <<pv_pc, pv_prefix, pv_ret, eu_vars, x_vars, ut_vars, ck_vars>>

PVCall ==
    /\ pv_pc = "build"
    /\ \E prefix \in {None, PrefixT} :
           /\ pv_prefix' = prefix
           /\ pv_ret' = process_signalsets(pv_loaded, MakeT, ModelC, prefix)
    /\ pv_pc' = "returned"
    /\ UNCHANGED <<pv_loaded, eu_vars, x_vars, ut_vars, ck_vars>>

PVNext == PVLoadFile \/ PVAddCommand \/ PVAddSignal \/ PVCall

SpecVehicle == PVInit /\ [][PVNext]_vars

----------------------------------------------------------------------------
(* Claims about process_signalsets *)

\* the occurrences of identifiers in the input, in processing order: one
\* record [key, sig, file] for every signal with a non-empty id of a service
\* 21/22 command, with the id as rewritten by the prefix
RECURSIVE OccOfSignals(_, _, _, _, _)
OccOfSignals(signals, key, file, prefix, i) ==
    IF i > Len(signals) THEN <<>>
    ELSE (IF Truthy(Get(signals[i], "id", <<>>))
          THEN <<[key |-> key, file |-> file,
                  sig |-> Put(signals[i], "id",
                              IF Truthy(prefix)
                              THEN replace_signal_prefix(signals[i]["id"], prefix)
                              ELSE signals[i]["id"])]>>
          ELSE <<>>)
         \o OccOfSignals(signals, key, file, prefix, i + 1)

RECURSIVE OccOfCommands(_, _, _, _)
OccOfCommands(commands, file, prefix, i) ==
    IF i > Len(commands) THEN <<>>
    ELSE (IF get_command_id(commands[i]) # None
          THEN OccOfSignals(Get(commands[i], "signals", <<>>),
                            get_command_id(commands[i]), file, prefix, 1)
          ELSE <<>>)
         \o OccOfCommands(commands, file, prefix, i + 1)

RECURSIVE OccOfFiles(_, _, _)
OccOfFiles(loaded, prefix, i) ==
    IF i > Len(loaded) THEN <<>>
    ELSE OccOfCommands(Get(loaded[i][1], "commands", <<>>), loaded[i][2], prefix, 1)
         \o OccOfFiles(loaded, prefix, i + 1)

PVOcc == OccOfFiles(pv_loaded, pv_prefix, 1)

\* the earlier occurrences of the identifier of occurrence j
Earlier(occ, j) == {i \in 1..(j - 1) : occ[i].sig["id"] = occ[j].sig["id"]}

\* occurrence j has the definition of the occurrence of its identifier just
\* before it (which is the definition the registry holds when j is processed)
EqualsPrevious(occ, j) ==
    /\ Earlier(occ, j) # {}
    /\ LET i == CHOOSE x \in Earlier(occ, j) : \A y \in Earlier(occ, j) : y <= x
       IN  CompareForm(occ[i].sig) = CompareForm(occ[j].sig)

\* the commands of the per-vehicle output with the given identity key
OutCommands(key) ==
    {c \in Range(pv_ret["commands"]) : get_command_id(c) = key}

\* C7: two signals with the same identifier and equal definitions under one
\* command identity key of the vehicle collapse to a single signal under that
\* command in the per-vehicle output.
C7_EqualSignalsCollapse ==
    pv_pc = "returned" =>
        \A c \in Range(pv_ret["commands"]) :
            LET sigs == Get(c, "signals", <<>>)
            IN  \A i, j \in DOMAIN sigs :
                    (/\ Has(sigs[i], "id") /\ Has(sigs[j], "id")
                     /\ sigs[i]["id"] = sigs[j]["id"]
                     /\ CompareForm(sigs[i]) = CompareForm(sigs[j])) => i = j

\* C8: when a signal whose identifier is registered with an equal definition
\* occurs under a command identity key in which the identifier was not used
\* before, it is kept under its own identifier: the per-vehicle output holds
\* the signal (that identifier, that definition) under this command, and
\* still holds a signal with that identifier under every command that used
\* the identifier before.
C8_EqualSignalKeptInOtherCommand ==
    pv_pc = "returned" =>
        \A j \in DOMAIN PVOcc :
            (/\ EqualsPrevious(PVOcc, j)
             /\ \A i \in Earlier(PVOcc, j) : PVOcc[i].key # PVOcc[j].key)
            => /\ \E c \in OutCommands(PVOcc[j].key) :
                      \E s \in Range(Get(c, "signals", <<>>)) :
                          /\ Get(s, "id", None) = PVOcc[j].sig["id"]
                          /\ CompareForm(s) = CompareForm(PVOcc[j].sig)
               /\ \A i \in Earlier(PVOcc, j) :
                      \E c \in OutCommands(PVOcc[i].key) :
                          PVOcc[j].sig["id"] \in SignalIds(c)

\* C8 witness: the second file brings, under another command key and another
\* original id and name, the definition the first file registered for T_X, and
\* the output holds T_X under both commands.
C8_Witness ==
    /\ pv_pc = "returned"
    /\ pv_prefix = PrefixT
    /\ Len(PVOcc) = 2
    /\ PVOcc[1].file # PVOcc[2].file
    /\ PVOcc[1].key # PVOcc[2].key
    /\ EqualsPrevious(PVOcc, 2)
    /\ pv_loaded[1][1]["commands"][1]["signals"][1]["id"] = IdAX
    /\ pv_loaded[2][1]["commands"][1]["signals"][1]["id"] = IdBX
    /\ Len(pv_ret["commands"]) = 2
    /\ \A n \in 1..2 : SignalIds(pv_ret["commands"][n]) = {IdTX}

\* the identifiers that occur in the input
OccIds(occ) == {occ[j].sig["id"] : j \in DOMAIN occ}

\* the occurrences of identifier id
OccOf(occ, id) == {j \in DOMAIN occ : occ[j].sig["id"] = id}

\* the last occurrence of id that is the first one or differs in definition
\* from the occurrence before it
LastRegistration(occ, id) ==
    CHOOSE j \in OccOf(occ, id) :
        /\ ~EqualsPrevious(occ, j)
        /\ \A k \in OccOf(occ, id) : k > j => EqualsPrevious(occ, k)

\* an identifier that several files contribute with an equal definition
\* under different commands
SeveralFilesDifferentCommands(occ, id) ==
    \E i, j \in OccOf(occ, id) :
        /\ i < j
        /\ EqualsPrevious(occ, j)
        /\ occ[i].file # occ[j].file
        /\ \A h \in Earlier(occ, j) : occ[h].key # occ[j].key

\* the files an origin list names
OriginFiles(sources) == {sources[n]["file"] : n \in DOMAIN sources}

\* C9 as stated: when several files contribute the same identifier with an
\* equal definition under different commands, the identifier's origin list
\* names each contributing file, each exactly once.
C9_OneOriginPerFile ==
    pv_pc = "returned" =>
        \A id \in OccIds(PVOcc) :
            (/\ SeveralFilesDifferentCommands(PVOcc, id)
             /\ \A j \in OccOf(PVOcc, id) : Earlier(PVOcc, j) # {} => EqualsPrevious(PVOcc, j))
            => LET sources == pv_ret["_signal_origins"][id]
               IN  /\ OriginFiles(sources) = {PVOcc[j].file : j \in OccOf(PVOcc, id)}
                   /\ Len(sources) = Cardinality(OriginFiles(sources))

\* C9 as amended: when several files contribute the same identifier with an
\* equal definition under different commands, the later file adds no origin
\* entry: the origin list has exactly one entry, the source of the file in
\* which the registered definition was last registered.
C9_NoOriginForLaterFile ==
    pv_pc = "returned" =>
        \A id \in OccIds(PVOcc) :
            SeveralFilesDifferentCommands(PVOcc, id)
            => /\ Has(pv_ret["_signal_origins"], id)
               /\ pv_ret["_signal_origins"][id] =
                      <<SourceInfo(PVOcc[LastRegistration(PVOcc, id)].file,
                                   MakeT, ModelC)>>

\* C9 witness: two files contribute T_X with an equal definition under
\* different commands and the origin list names the first file alone.
C9_Witness ==
    /\ pv_pc = "returned"
    /\ Len(PVOcc) = 2
    /\ SeveralFilesDifferentCommands(PVOcc, PVOcc[1].sig["id"])
    /\ PVOcc[1].file = FileName(1)
    /\ PVOcc[2].file = FileName(2)
    /\ OriginFiles(pv_ret["_signal_origins"][PVOcc[1].sig["id"]]) = {FileName(1)}

\* C10: when every occurrence of an identifier in the vehicle's documents has
\* an equal definition, its origin list has exactly one entry, and the entry
\* names the first document in load order that defined it.
C10_SingleOriginFirstFile ==
    pv_pc = "returned" =>
        \A id \in OccIds(PVOcc) :
            (\A i, j \in OccOf(PVOcc, id) :
                 CompareForm(PVOcc[i].sig) = CompareForm(PVOcc[j].sig))
            => LET first == CHOOSE j \in OccOf(PVOcc, id) :
                                \A k \in OccOf(PVOcc, id) : j <= k
                   sources == pv_ret["_signal_origins"][id]
               IN  /\ Len(sources) = 1
                   /\ sources[1]["file"] = PVOcc[first].file

\* C10 witness: an identifier occurs three times with an equal definition, in
\* both files, and its one origin entry names the first file with its year
\* range.
C10_Witness ==
    /\ pv_pc = "returned"
    /\ Len(PVOcc) = 3
    /\ \A j \in 1..3 : PVOcc[j].sig["id"] = PVOcc[1].sig["id"]
    /\ \A j \in 2..3 : EqualsPrevious(PVOcc, j)
    /\ PVOcc[1].file = FileName(1)
    /\ PVOcc[3].file = FileName(2)
    /\ pv_ret["_signal_origins"][PVOcc[1].sig["id"]] =
           <<[file |-> File2016, make |-> MakeT, model |-> ModelC,
              repo |-> <<"T", "-", "C">>,
              yearRange |-> [start |-> 2016, end |-> 2020]]>>

\* the (command identity key, signal identifier) pairs of a signalset
KeyIdPairs(signalset) ==
    UNION {{<<get_command_id(c), Get(sig, "id", None)>> :
               sig \in Range(Get(c, "signals", <<>>))} :
           c \in Range(signalset["commands"])}

\* the loaded documents in every order
LoadOrders(loaded) ==
    {[i \in DOMAIN loaded |-> loaded[perm[i]]] :
        perm \in {f \in [DOMAIN loaded -> DOMAIN loaded] :
                     \A i, j \in DOMAIN loaded : f[i] = f[j] => i = j}}

\* C16: for every order of the vehicle's loaded documents process_signalsets
\* gives the same set of (command identity key, signal identifier) pairs.
C16_PairsIndependentOfLoadOrder ==
    pv_pc = "returned" =>
        \A order \in LoadOrders(pv_loaded) :
            KeyIdPairs(process_signalsets(order, MakeT, ModelC, pv_prefix))
                = KeyIdPairs(pv_ret)

\* C16 witness: two documents give the same identifier under the same command
\* with different definitions; the other load order keeps the other
\* definition, and the pairs are the same.
C16_Witness ==
    /\ pv_pc = "returned"
    /\ Len(pv_loaded) = 2
    /\ KeyIdPairs(pv_ret) # {}
    /\ LET other == process_signalsets(<<pv_loaded[2], pv_loaded[1]>>,
                                       MakeT, ModelC, pv_prefix)
       IN  /\ Len(other["commands"]) = 1
           /\ Len(pv_ret["commands"]) = 1
           /\ other["commands"] # pv_ret["commands"]
           /\ KeyIdPairs(other) = KeyIdPairs(pv_ret)

\* the loaded documents cut after the first n commands, in load order
RECURSIVE FirstCommands(_, _, _)
FirstCommands(loaded, i, n) ==
    IF i > Len(loaded) \/ n = 0 THEN <<>>
    ELSE LET commands == Get(loaded[i][1], "commands", <<>>)
             k == IF n < Len(commands) THEN n ELSE Len(commands)
         IN  << <<[commands |-> SubSeq(commands, 1, k)], loaded[i][2]>> >>
             \o FirstCommands(loaded, i + 1, n - k)

\* the per-vehicle output after the first n commands of the input
OutputAfter(n) ==
    process_signalsets(FirstCommands(pv_loaded, 1, n), MakeT, ModelC, pv_prefix)

\* the identity keys of a command list, in order
KeysOf(commands) == [i \in DOMAIN commands |-> get_command_id(commands[i])]

\* a sequence without the repetitions of its elements, in first-seen order
RECURSIVE FirstSeen(_)
FirstSeen(keys) ==
    IF keys = <<>> THEN <<>>
    ELSE LET before == FirstSeen(SubSeq(keys, 1, Len(keys) - 1))
         IN  IF keys[Len(keys)] \in Range(before) THEN before
             ELSE Append(before, keys[Len(keys)])

NotNone(key) == key # None

\* C23: the per-vehicle output holds one command per distinct identity key
\* of the service 21/22 input commands, in first-seen order; an input command
\* whose key the output holds already adds no command, leaves every other
\* command as it is, and appends to the command of its key only signals whose
\* identifier that command did not hold.
C23_OneCommandPerKey ==
    pv_pc = "returned" =>
        /\ KeysOf(pv_ret["commands"])
               = FirstSeen(SelectSeq(KeysOf(LoadedCommands(pv_loaded, 1)), NotNone))
        /\ \A n \in 1..Len(LoadedCommands(pv_loaded, 1)) :
               LET key    == get_command_id(LoadedCommands(pv_loaded, 1)[n])
                   before == OutputAfter(n - 1)["commands"]
                   after  == OutputAfter(n)["commands"]
               IN  (key # None /\ key \in Range(KeysOf(before))) =>
                       /\ Len(after) = Len(before)
                       /\ \A p \in DOMAIN before :
                              IF get_command_id(before[p]) # key
                              THEN after[p] = before[p]
                              ELSE LET old == Get(before[p], "signals", <<>>)
                                       new == Get(after[p], "signals", <<>>)
                                   IN  /\ Del(after[p], "signals") = Del(before[p], "signals")
                                       /\ Len(new) >= Len(old)
                                       /\ SubSeq(new, 1, Len(old)) = old
                                       /\ \A q \in (Len(old) + 1)..Len(new) :
                                              Get(new[q], "id", None)
                                                  \notin SignalIds(before[p])

\* C23 witness: the second document repeats the key of the first with one
\* signal the command holds already and one it does not; the output has one
\* command, with the two signals.
C23_Witness ==
    /\ pv_pc = "returned"
    /\ Len(pv_loaded) = 2
    /\ Len(LoadedCommands(pv_loaded, 1)) = 2
    /\ KeysOf(LoadedCommands(pv_loaded, 1))[1] = KeysOf(LoadedCommands(pv_loaded, 1))[2]
    /\ Len(PVOcc) = 3
    /\ PVOcc[1].file = FileName(1)
    /\ PVOcc[2].file = FileName(2)
    /\ PVOcc[3].file = FileName(2)
    /\ PVOcc[2].sig["id"] = PVOcc[1].sig["id"]
    /\ ~EqualsPrevious(PVOcc, 2)
    /\ PVOcc[3].sig["id"] # PVOcc[1].sig["id"]
    /\ Len(pv_ret["commands"]) = 1
    /\ pv_ret["commands"][1]["signals"] = <<PVOcc[1].sig, PVOcc[3].sig>>

\* an identifier whose last registration replaced an earlier one: it
\* occurred before, with a definition not equal to the new one
ReRegistered(occ, id) == Earlier(occ, LastRegistration(occ, id)) # {}

PVOut == AllSignals(pv_ret["commands"], 1)

\* C28: every source recorded for an identifier in the returned
\* '_signal_origins' names a file with an occurrence of the identifier whose
\* definition is a signal of the output commands.
C28_OriginDefinitionInOutput ==
    pv_pc = "returned" =>
        \A id \in DOMAIN pv_ret["_signal_origins"] :
            \A src \in Range(pv_ret["_signal_origins"][id]) :
                \E j \in OccOf(PVOcc, id) :
                    /\ PVOcc[j].file = src["file"]
                    /\ PVOcc[j].sig \in Range(PVOut)

\* C29: in the per-vehicle output the signals of a command that carry a
\* non-empty id have pairwise distinct ids.
C29_DistinctIdsInCommand ==
    pv_pc = "returned" =>
        \A c \in Range(pv_ret["commands"]) :
            \A p, q \in DOMAIN Get(c, "signals", <<>>) :
                (/\ p # q
                 /\ Truthy(Get(c["signals"][p], "id", <<>>))
                 /\ Truthy(Get(c["signals"][q], "id", <<>>)))
                    => c["signals"][p]["id"] # c["signals"][q]["id"]

----------------------------------------------------------------------------
(* extract_data run over a workspace *)

RepoNameList == << <<"T", "-", "C">>, <<"T", "-", "R">>, <<"H">>, <<"H", "-", "A">> >>

XSignalInputs == {[id |-> IdX, fmt |-> 1], [id |-> IdX, fmt |-> 2]}

\* two service 22 commands with different keys, a service 01 command and a
\* command with no 'cmd' mapping
XCommandInputs ==
    {[hdr |-> Hdr7E0, cmd |-> Cmd22, signals |-> <<>>],
     [hdr |-> Hdr7E1, cmd |-> Cmd22, signals |-> <<>>],
     [hdr |-> Hdr7E0, cmd |-> Cmd01, signals |-> <<>>],
     [hdr |-> Hdr7E0, signals |-> <<>>]}

\* a merged signalset of an earlier state of the fleet, which no run over the
\* workspaces of the model produces
OldSignalset ==
    [commands |-> <<[hdr |-> <<"7", "D", "F">>, cmd |-> Cmd22, dbg |-> TRUE]>>]

\* the commands of the files of a repository, in file order
RECURSIVE FileCommands(_, _)
FileCommands(files, i) ==
    IF i > Len(files) THEN <<>>
    ELSE Get(Get(files[i], "json", <<>>), "commands", <<>>)
         \o FileCommands(files, i + 1)

\* the commands of the workspace
RECURSIVE WorkspaceCommands(_, _)
WorkspaceCommands(ws, i) ==
    IF i > Len(RepoNameList) THEN <<>>
    ELSE (IF Has(ws, RepoNameList[i])
          THEN FileCommands(ws[RepoNameList[i]], 1) ELSE <<>>)
         \o WorkspaceCommands(ws, i + 1)

\* the repository the workspace got last
LastRepo == RepoNameList[Cardinality(DOMAIN workspace)]

Init ==
    /\ pc = "build"
    /\ workspace = <<>>
    /\ filter_prefixes = <<>>
    /\ filter_prefix_exclusions = <<>>
    /\ arg_signal_prefix = None
    /\ group_idx = 0
    /\ all_repos = <<>>
    /\ repos_in_group = <<>>
    /\ repo_signalset = [commands |-> <<>>]
    /\ merged_signalset = [commands |-> <<>>]
    /\ global_signal_origins = <<>>
    /\ global_command_origins = <<>>
    /\ report_args = <<>>
    /\ report = <<>>
    /\ force = FALSE
    /\ temp_output = AbsentFile
    /\ final_output = AbsentFile
    /\ validator = "none"
    /\ current_hash = <<>>
    /\ change_status = "none"
    /\ previous_output = AbsentFile
    /\ merge_log = <<>>
    /\ run = 1
    /\ first_run = <<>>
    /\ PVIdle
    /\ EUIdle
    /\ UTIdle
    /\ CKIdle

XBuild(ws) ==
    /\ pc = "build"
    /\ workspace' = ws
    /\ UNCHANGED <<pc, x_args, x_locals, x_out, x_hist, pv_vars, eu_vars, ut_vars, ck_vars>>

AddRepo ==
    /\ Cardinality(DOMAIN workspace) < MaxRepos
    /\ XBuild(Put(workspace, RepoNameList[Cardinality(DOMAIN workspace) + 1], <<>>))

\* the files of the workspace that cannot be opened or parsed
UnreadableFiles(ws) ==
    {<<name, i>> \in (DOMAIN ws) \X (1..(MaxRepoFiles + MaxUnreadable)) :
        i <= Len(ws[name]) /\ ~Has(ws[name][i], "json")}

AddFile ==
    /\ workspace # <<>>
    /\ Len(LoadFiles(workspace[LastRepo], 1)) < MaxRepoFiles
    /\ XBuild(Put(workspace, LastRepo,
                  Append(workspace[LastRepo],
                         [name |-> FileName(Len(workspace[LastRepo]) + 1),
                          json |-> [commands |-> <<>>]])))

\* a file that cannot be opened or parsed
AddUnreadableFile ==
    /\ workspace # <<>>
    /\ Cardinality(UnreadableFiles(workspace)) < MaxUnreadable
    /\ XBuild(Put(workspace, LastRepo,
                  Append(workspace[LastRepo],
                         [name |-> FileName(Len(workspace[LastRepo]) + 1)])))

AddCommand ==
    /\ workspace # <<>>
    /\ workspace[LastRepo] # <<>>
    /\ Has(workspace[LastRepo][Len(workspace[LastRepo])], "json")
    /\ Len(WorkspaceCommands(workspace, 1)) < MaxRunCommands
    /\ \E c \in XCommandInputs :
           XBuild(Put(workspace, LastRepo,
                      [workspace[LastRepo] EXCEPT ![Len(workspace[LastRepo])] =
                          Put(@, "json",
                              [commands |-> Append(@["json"]["commands"], c)])]))

AddSignal ==
    /\ workspace # <<>>
    /\ workspace[LastRepo] # <<>>
    /\ Has(workspace[LastRepo][Len(workspace[LastRepo])], "json")
    /\ Len(AllSignals(WorkspaceCommands(workspace, 1), 1)) < MaxRunSignals
    /\ LET f == Len(workspace[LastRepo])
           n == Len(workspace[LastRepo][f]["json"]["commands"])
       IN  /\ n > 0
           /\ \E s \in XSignalInputs :
                  XBuild(Put(workspace, LastRepo,
                      [workspace[LastRepo] EXCEPT ![f] =
                          Put(@, "json",
                              [commands |-> [@["json"]["commands"] EXCEPT ![n] =
                                  Put(@, "signals", Append(@["signals"], s))]])]))

\* extract_data(workspace_dir, output_dir, force, filter_prefixes,
\* filter_prefix_exclusions) is called; the output directory holds the file
\* `old` as merged_signalset.json
CallWith(prefixes, exclusions, old) ==
    /\ pc = "build"
    /\ pc' = "scan"
    /\ filter_prefixes' = prefixes
    /\ filter_prefix_exclusions' = exclusions
    /\ previous_output' = old
    /\ final_output' = old
    /\ UNCHANGED <<workspace, arg_signal_prefix, force, x_locals, report_args,
                   report,                   temp_output, validator, current_hash, change_status,
                   merge_log, run, first_run, pv_vars, eu_vars, ut_vars, ck_vars>>

\* a call with no filters; the output directory holds no merged signalset or
\* an old one
Call ==
    \E old \in {AbsentFile, FileOf(OldSignalset)} : CallWith(<<>>, <<>>, old)

\* `for group_idx, group_filters in enumerate(repo_groups)`: the scan of the
\* workspace for one group
ScanGroup ==
    /\ pc = "scan"
    /\ LET group_filters == RepoGroups(filter_prefixes)[group_idx + 1]
           found == ReposInGroup(workspace, group_filters,
                                 filter_prefix_exclusions, all_repos)
       IN  /\ repos_in_group' = SortedNames(found)
           /\ all_repos' = [name \in (DOMAIN all_repos) \cup found |->
                               IF name \in found
                               THEN RepoData(workspace, name, group_idx)
                               ELSE all_repos[name]]
    /\ pc' = "merge"
    /\ UNCHANGED <<workspace, x_args, group_idx, repo_signalset,
                   merged_signalset, global_signal_origins,
                   global_command_origins, x_out, x_hist,
                   pv_vars, eu_vars, ut_vars, ck_vars>>

\* one iteration of `for repo_name in sorted(repos_in_group.keys())`
MergeRepo ==
    /\ pc = "merge"
    /\ repos_in_group # <<>>
    /\ LET repo_name == Head(repos_in_group)
           repo_data == all_repos[repo_name]
           merged    == merge_signalsets(repo_data.files, repo_data.make,
                                         repo_data.model, arg_signal_prefix)
           stripped  == IF Has(merged, "_signal_origins")
                        THEN Del(merged, "_signal_origins") ELSE merged
       IN  /\ global_signal_origins' =
                  IF Has(merged, "_signal_origins")
                  THEN ExtendSignalOrigins(global_signal_origins,
                                           merged["_signal_origins"])
                  ELSE global_signal_origins
           /\ repo_signalset' = stripped
           /\ global_command_origins' =
                  TrackCommandOrigins(global_command_origins,
                                      Get(stripped, "commands", <<>>),
                                      repo_name, repo_data, 1)
           /\ merged_signalset' =
                  [commands |->
                      XMergeCommands(merged_signalset["commands"],
                                     CommandMap(merged_signalset["commands"]),
                                     stripped["commands"], 1)]
           /\ merge_log' = Append(merge_log,
                                  [group |-> group_idx, repo |-> repo_name,
                                   result |-> merged])
    /\ repos_in_group' = Tail(repos_in_group)
    /\ UNCHANGED <<pc, workspace, x_args, group_idx, all_repos, x_out,
                   previous_output, run, first_run, pv_vars, eu_vars, ut_vars, ck_vars>>

\* the end of one iteration of the loop over repo_groups
NextGroup ==
    /\ pc = "merge"
    /\ repos_in_group = <<>>
    /\ group_idx' = group_idx + 1
    /\ pc' = IF group_idx + 1 < Len(RepoGroups(filter_prefixes))
             THEN "scan" ELSE "unique"
    /\ UNCHANGED <<workspace, x_args, all_repos, repos_in_group,
                   repo_signalset, merged_signalset, global_signal_origins,
                   global_command_origins, x_out, x_hist,
                   pv_vars, eu_vars, ut_vars, ck_vars>>

\* merged_signalset = ensure_unique_signal_ids(merged_signalset)
\* current_hash = calculate_hash(merged_signalset)
EnsureUnique ==
    /\ pc = "unique"
    /\ merged_signalset' = ensure_unique_signal_ids(merged_signalset)
    /\ eu_arg' = merged_signalset
    /\ eu_ret' = merged_signalset'
    /\ eu_pc' = "returned"
    /\ current_hash' = calculate_hash(JsonOfSignalset(merged_signalset'))
    /\ pc' = "write"
    /\ UNCHANGED <<workspace, x_args, group_idx, all_repos, repos_in_group,
                   repo_signalset, global_signal_origins,
                   global_command_origins, report_args, report, temp_output,
                   final_output, validator, change_status, x_hist,
                   pv_vars, ut_vars, ck_vars>>

\* "Write to temporary file first", then "Run the validation and
\* normalization process": validate_json.py is missing, fails, or succeeds and
\* writes the final file
WriteOutput ==
    /\ pc = "write"
    /\ LET temp == FileOf(merged_signalset)
       IN  \/ /\ validator' = "missing"
              /\ temp_output' = FallBack(temp, final_output).temp
              /\ final_output' = FallBack(temp, final_output).final
           \/ /\ validator' = "failed"
              /\ temp_output' = FallBack(temp, final_output).temp
              /\ final_output' = FallBack(temp, final_output).final
           \/ /\ validator' = "succeeded"
              /\ \E data \in ValidatorOutputs(merged_signalset) :
                     /\ temp_output' = ValidatorWrote(temp, data).temp
                     /\ final_output' = ValidatorWrote(temp, data).final
    /\ pc' = "report"
    /\ UNCHANGED <<workspace, x_args, x_locals, report_args, report, current_hash,
                   change_status, x_hist, pv_vars, eu_vars, ut_vars, ck_vars>>

\* the message "Compare with previous version if it exists" prints
ChangeStatus(final, forced, hash) ==
    IF final.exists /\ ~forced
    THEN IF calculate_hash(JsonOfSignalset(final.data)) = hash THEN "no changes" ELSE "changes"
    ELSE "none"

\* generate_provenance_report(global_signal_origins, global_command_origins, ..)
\* and the comparison with the file at final_output_path; the argument force
\* is read here and nowhere before
Report ==
    /\ pc = "report"
    /\ report_args' = [signal_origins |-> global_signal_origins,
                       cmd_origins |-> global_command_origins]
    /\ report' = generate_provenance_report(global_signal_origins,
                                            global_command_origins)
    /\ \E forced \in BOOLEAN :
           /\ force' = forced
           /\ change_status' = ChangeStatus(final_output, forced, current_hash)
    /\ pc' = "done"
    /\ UNCHANGED <<workspace, filter_prefixes, filter_prefix_exclusions,
                   arg_signal_prefix, x_locals, temp_output, final_output,
                   validator, current_hash, x_hist, pv_vars, eu_vars, ut_vars, ck_vars>>

\* extract_data is called again with the same arguments over the same
\* workspace and the output directory the first run left
Rerun ==
    /\ pc = "done"
    /\ run = 1
    /\ run' = 2
    /\ first_run' = [merged_signalset |-> merged_signalset,
                     global_signal_origins |-> global_signal_origins,
                     global_command_origins |-> global_command_origins,
                     current_hash |-> current_hash]
    /\ LET locals == CallLocals([merged_signalset |-> merged_signalset,
                                 global_signal_origins |-> global_signal_origins,
                                 global_command_origins |-> global_command_origins])
       IN  /\ merged_signalset' = locals.merged_signalset
           /\ global_signal_origins' = locals.global_signal_origins
           /\ global_command_origins' = locals.global_command_origins
    /\ group_idx' = 0
    /\ all_repos' = <<>>
    /\ repos_in_group' = <<>>
    /\ repo_signalset' = [commands |-> <<>>]
    /\ report_args' = <<>>
    /\ report' = <<>>
    /\ force' = FALSE
    /\ validator' = "none"
    /\ current_hash' = <<>>
    /\ change_status' = "none"
    /\ previous_output' = final_output
    /\ merge_log' = <<>>
    /\ eu_pc' = "idle"
    /\ eu_arg' = [commands |-> <<>>]
    /\ eu_ret' = [commands |-> <<>>]
    /\ pc' = "scan"
    /\ UNCHANGED <<workspace, filter_prefixes, filter_prefix_exclusions,
                   arg_signal_prefix, temp_output, final_output,
                   pv_vars, ut_vars, ck_vars>>

Next ==
    \/ AddRepo \/ AddFile \/ AddUnreadableFile \/ AddCommand \/ AddSignal
    \/ Call \/ ScanGroup \/ MergeRepo \/ NextGroup \/ EnsureUnique
    \/ WriteOutput \/ Report \/ Rerun

Spec == Init /\ [][Next]_vars

----------------------------------------------------------------------------
(* Claims about extract_data *)

\* C3: the fleet-wide command list never holds two commands with the same
\* identity key: a command whose key is already there is merged into the
\* existing command and not appended.
C3_OneCommandPerKey ==
    \A i, j \in DOMAIN merged_signalset["commands"] :
        get_command_id(merged_signalset["commands"][i])
            = get_command_id(merged_signalset["commands"][j]) => i = j

\* C4: at the end of the run every identifier emitted in the merged output,
\* every identifier renamed by the enforcer included, is a key of the signal
\* origin map given to generate_provenance_report, and a renamed identifier
\* has the origins of its original identifier.
C4_EmittedIdsHaveOrigins ==
    pc = "done" =>
        \A p \in DOMAIN EUOut :
            Has(EUOut[p], "id") =>
                /\ Has(report_args["signal_origins"], EUOut[p]["id"])
                /\ report_args["signal_origins"][EUOut[p]["id"]]
                       = report_args["signal_origins"][EUIn[p]["id"]]

\* the service id of a command as written in the input
WrittenServiceId(cmd) ==
    IF Has(cmd, "cmd") /\ Len(cmd["cmd"]) > 0 THEN cmd["cmd"][1][1] ELSE <<>>

Service2122(cmd) == WrittenServiceId(cmd) \in {<<"2", "1">>, <<"2", "2">>}

\* the non-empty identifiers under the service 21/22 commands of a file
AggregatedIds(file) ==
    {s["id"] : s \in {x \in UNION {Range(Get(c, "signals", <<>>)) :
                          c \in {y \in Range(FileCommands(<<file>>, 1)) : Service2122(y)}} :
                      Has(x, "id") /\ x["id"] # <<>>}}

\* C6: a command whose service id is not 21 or 22 (a command with no 'cmd'
\* mapping included) is neither in the per-vehicle output of
\* process_signalsets nor in the fleet-wide merged output, and its signals
\* enter no origin map: every key of an origin map comes from a service 21/22
\* command, and every origin entry names a file that holds the identifier
\* under a service 21/22 command.
C6_OtherServicesExcluded ==
    /\ \A c \in Range(repo_signalset["commands"])
                    \cup Range(merged_signalset["commands"]) : Service2122(c)
    /\ \A name \in DOMAIN all_repos :
           LET out == merge_signalsets(all_repos[name].files, all_repos[name].make,
                                       all_repos[name].model, arg_signal_prefix)
           IN  /\ \A c \in Range(out["commands"]) : Service2122(c)
               /\ \A id \in DOMAIN out["_signal_origins"] :
                      \A n \in DOMAIN out["_signal_origins"][id] :
                          \E f \in Range(workspace[name]) :
                              /\ f["name"] = out["_signal_origins"][id][n]["file"]
                              /\ id \in AggregatedIds(f)
    /\ \A id \in DOMAIN global_signal_origins :
           \A n \in DOMAIN global_signal_origins[id] :
               \E name \in DOMAIN workspace :
                   \E f \in Range(workspace[name]) :
                       /\ f["name"] = global_signal_origins[id][n]["file"]
                       /\ SplitMakeModel(name)[1] = global_signal_origins[id][n]["make"]
                       /\ id \in AggregatedIds(f)
    /\ \A k \in DOMAIN global_command_origins :
           \E name \in DOMAIN workspace :
               \E f \in Range(workspace[name]) :
                   \E c \in Range(FileCommands(<<f>>, 1)) :
                       Service2122(c) /\ get_command_id(c) = k

\* C6 witness: the run has ended; a repository holds a service 21/22 command
\* and a command of another service that carries a signal; the merged output
\* holds the service 21/22 command alone and the origin maps know no signal.
C6_Witness ==
    /\ pc = "done"
    /\ \E name \in DOMAIN workspace :
           \E f \in Range(workspace[name]) :
               /\ \E c \in Range(FileCommands(<<f>>, 1)) :
                      ~Service2122(c) /\ c["signals"] # <<>>
               /\ \E c \in Range(FileCommands(<<f>>, 1)) : Service2122(c)
    /\ Len(merged_signalset["commands"]) = 1
    /\ report_args["signal_origins"] = <<>>
    /\ Cardinality(DOMAIN report_args["cmd_origins"]) = 1

\* C13: in a non-forced run that finds a merged output of the previous run,
\* the reported status is 'changes' when the hash of that previous output
\* differs from the hash of the new merged signalset and 'no changes' when
\* the two are equal.
C13_StatusComparesPreviousOutput ==
    (pc = "done" /\ ~force /\ previous_output.exists) =>
        change_status = IF calculate_hash(JsonOfSignalset(previous_output.data)) = current_hash
                        THEN "no changes" ELSE "changes"

\* C14: when the validator fails, and likewise when its script is missing,
\* the run goes on: the final output file holds the unvalidated merged
\* document, the temporary file is gone, and the run ends with the provenance
\* report generated from the origin maps.
C14_FallBackToUnvalidatedOutput ==
    validator \in {"failed", "missing"} =>
        /\ pc \in {"report", "done"}
        /\ final_output = FileOf(merged_signalset)
        /\ ~temp_output.exists
        /\ pc = "done" =>
               report_args = [signal_origins |-> global_signal_origins,
                              cmd_origins |-> global_command_origins]

\* a run ended after the validator failed on a non-empty merged document that
\* replaced an older output
C14_Witness ==
    /\ pc = "done"
    /\ validator = "failed"
    /\ merged_signalset["commands"] # <<>>
    /\ previous_output = FileOf(OldSignalset)
    /\ final_output = FileOf(merged_signalset)

Readable(file) == Has(file, "json")

\* the documents and names of the files of a vehicle that can be read, in the
\* order of the files
RemainingLoaded(files) ==
    [i \in 1..Len(SelectSeq(files, Readable)) |->
        <<SelectSeq(files, Readable)[i]["json"], SelectSeq(files, Readable)[i]["name"]>>]

MergedSignalIds ==
    {sig["id"] : sig \in {x \in Range(AllSignals(merged_signalset["commands"], 1)) :
                              Has(x, "id")}}

\* C27: at the end of a run the report's commandCount is the number of
\* commands of the merged signalset and its signalCount is the number of
\* distinct signal identifiers of the merged signalset.
C27_ReportTotalsDescribeOutput ==
    pc = "done" =>
        /\ report.commandCount = Len(merged_signalset["commands"])
        /\ report.signalCount = Cardinality(MergedSignalIds)

----------------------------------------------------------------------------
(* extract_data run with priority filters *)

PrefixTR == <<"T", "-", "R">>
PrefixH  == <<"H">>

\* the signalset files a repository of the fleet may hold: none, or one file
\* with one command whose signal X is named after the repository
GRepoFiles(name) ==
    {<<>>}
    \cup {<<[name |-> File2016,
             json |-> [commands |->
                        <<[hdr |-> hdr, cmd |-> cmd,
                           signals |-> <<[id |-> IdX, fmt |-> 1, name |-> name]>>]>>]]>> :
           <<hdr, cmd>> \in {<<Hdr7E0, Cmd22>>, <<Hdr7E1, Cmd22>>, <<Hdr7E0, Cmd01>>}}

\* filter_prefixes: up to MaxFilters prefixes in the caller's order
FilterInputs ==
    UNION {[1..n -> {PrefixT, PrefixTR, PrefixH}] : n \in 0..MaxFilters}

\* filter_prefix_exclusions: none, one vehicle, a make, or two prefixes
ExclusionInputs ==
    {<<>>, << <<"T", "-", "C">> >>, <<PrefixT>>, <<PrefixH, <<"T", "-", "C">>>>}

GAddRepo ==
    /\ Cardinality(DOMAIN workspace) < MaxGroupRepos
    /\ \E files \in GRepoFiles(RepoNameList[Cardinality(DOMAIN workspace) + 1]) :
           XBuild(Put(workspace, RepoNameList[Cardinality(DOMAIN workspace) + 1],
                      files))

GCall ==
    \E prefixes \in FilterInputs, exclusions \in ExclusionInputs :
        CallWith(prefixes, exclusions, AbsentFile)

GNext ==
    \/ GAddRepo \/ GCall \/ ScanGroup \/ MergeRepo \/ NextGroup
    \/ EnsureUnique \/ WriteOutput \/ Report

SpecGroups == Init /\ [][GNext]_vars

----------------------------------------------------------------------------
(* Claims about extract_data with priority filters *)

\* the indexes (from 0) of the caller's prefixes a repository name starts with
MatchingGroups(name) ==
    {i \in 0..(Len(filter_prefixes) - 1) : StartsWith(name, filter_prefixes[i + 1])}

\* the repositories a run has to merge: they hold signalset files, match a
\* prefix if there is one, and match no exclusion
Eligible ==
    {name \in DOMAIN workspace :
        /\ workspace[name] # <<>>
        /\ filter_prefixes = <<>> \/ MatchingGroups(name) # {}
        /\ ~StartsWithAny(name, filter_prefix_exclusions)}

\* the group of the first prefix, in caller order, the name matches; the
\* single group 0 with no filters
FirstGroup(name) ==
    IF filter_prefixes = <<>> THEN 0
    ELSE CHOOSE i \in MatchingGroups(name) : \A k \in MatchingGroups(name) : i <= k

\* C11: every vehicle is merged at most once per run, in the group of the
\* first prefix (in caller order) its name matches, its recorded priority is
\* that group's index, and with no filters every vehicle is merged in the
\* single group 0; when the run is over every eligible vehicle was merged.
C11_MergedOnceInFirstGroup ==
    /\ \A i, k \in DOMAIN merge_log :
           i # k => merge_log[i].repo # merge_log[k].repo
    /\ \A i \in DOMAIN merge_log :
           /\ merge_log[i].repo \in Eligible
           /\ merge_log[i].group = FirstGroup(merge_log[i].repo)
           /\ all_repos[merge_log[i].repo].priority = merge_log[i].group
    /\ pc \in {"unique", "write", "report", "done"} =>
           {merge_log[i].repo : i \in DOMAIN merge_log} = Eligible

\* a finished run in which a merged vehicle matches two prefixes and another
\* vehicle was merged in a later group
C11_Witness ==
    /\ pc = "done"
    /\ \E i, k \in DOMAIN merge_log :
           /\ Cardinality(MatchingGroups(merge_log[i].repo)) = 2
           /\ merge_log[k].group > merge_log[i].group

\* the vehicles of the run whose file has a signal under a service 21/22
\* command
Contributors ==
    {name \in Eligible :
        \E c \in Range(FileCommands(workspace[name], 1)) :
            Service2122(c) /\ Get(c, "signals", <<>>) # <<>>}

\* vehicle a is merged before vehicle b: earlier group, or the same group and
\* a name that sorts first
MergedBefore(a, b) ==
    \/ FirstGroup(a) < FirstGroup(b)
    \/ FirstGroup(a) = FirstGroup(b) /\ StrLess(a, b)

\* 1 for the bare id X, n for X_V<n>, 0 for another id
VersionOf(id) ==
    IF id = IdX THEN 1
    ELSE IF \E n \in 2..(MaxGroupRepos + 1) : id = IdX \o <<"_", "V">> \o IntToStr(n)
         THEN CHOOSE n \in 2..(MaxGroupRepos + 1) : id = IdX \o <<"_", "V">> \o IntToStr(n)
         ELSE 0

\* the signals of the final output that carry the name of a vehicle
OutputSignalsOf(name) ==
    {i \in DOMAIN AllSignals(merged_signalset["commands"], 1) :
        AllSignals(merged_signalset["commands"], 1)[i]["name"] = name}

\* C12: when several vehicles contribute the id X, the final output holds one
\* occurrence per vehicle; the vehicle of the earliest group, and within a
\* group the one whose name sorts first, keeps the bare X, and every other
\* vehicle's occurrence is X_V<n> with n counting the vehicles in that order.
C12_EarliestGroupKeepsBareId ==
    pc \in {"write", "report", "done"} =>
        \A name \in Contributors :
            /\ Cardinality(OutputSignalsOf(name)) = 1
            /\ \A i \in OutputSignalsOf(name) :
                   VersionOf(AllSignals(merged_signalset["commands"], 1)[i]["id"])
                       = 1 + Cardinality({o \in Contributors : MergedBefore(o, name)})

\* a finished run in which two vehicles share the earliest group and a
\* vehicle of a later group has the name that sorts first of the three
C12_Witness ==
    /\ pc = "done"
    /\ \E a, b, c \in Contributors :
           /\ FirstGroup(a) = FirstGroup(b)
           /\ FirstGroup(b) < FirstGroup(c)
           /\ StrLess(a, b)
           /\ StrLess(c, a)
           /\ \A i \in OutputSignalsOf(a) :
                  AllSignals(merged_signalset["commands"], 1)[i]["id"] = IdX
           /\ \A i \in OutputSignalsOf(c) :
                  AllSignals(merged_signalset["commands"], 1)[i]["id"]
                      = <<"X", "_", "V", "3">>

\* the name starts with one of the exclusion prefixes of the run
Excluded(name) == StartsWithAny(name, filter_prefix_exclusions)

\* the sources of an origin map (signal id or command id -> list of sources)
AllSources(origins) ==
    UNION {Range(origins[k]) : k \in DOMAIN origins}

\* C26: a vehicle whose name starts with an exclusion prefix is in no group
\* and is never merged, and the run holds no signal of it, no signal origin
\* and no command origin that names it, whether or not it matches an
\* inclusion prefix; a vehicle that matches no exclusion prefix is merged as
\* with no exclusion list: in its first group, with the result of merging
\* its own files, and its command, its signal origin and its command origin
\* are there when the groups are done.
C26_ExcludedContributesNothing ==
    /\ \A name \in DOMAIN workspace :
           Excluded(name) =>
               /\ name \notin DOMAIN all_repos
               /\ name \notin Range(repos_in_group)
               /\ \A i \in DOMAIN merge_log : merge_log[i].repo # name
               /\ OutputSignalsOf(name) = {}
               /\ \A src \in AllSources(global_command_origins) :
                      src["repo"] # name
               /\ \A src \in AllSources(global_signal_origins) :
                      <<src["make"], src["model"]>> # SplitMakeModel(name)
    /\ \A i \in DOMAIN merge_log :
           /\ merge_log[i].group = FirstGroup(merge_log[i].repo)
           /\ merge_log[i].result =
                  process_signalsets(RemainingLoaded(workspace[merge_log[i].repo]),
                                     SplitMakeModel(merge_log[i].repo)[1],
                                     SplitMakeModel(merge_log[i].repo)[2],
                                     arg_signal_prefix)
    /\ pc \in {"unique", "write", "report", "done"} =>
           /\ Len(merged_signalset["commands"]) = Cardinality(Contributors)
           /\ \A name \in DOMAIN workspace :
                  (~Excluded(name) /\ name \in Contributors) =>
                      /\ Cardinality(OutputSignalsOf(name)) = 1
                      /\ \E src \in AllSources(global_command_origins) :
                             src["repo"] = name
                      /\ \E src \in AllSources(global_signal_origins) :
                             <<src["make"], src["model"]>> = SplitMakeModel(name)

\* C26 witness: a finished run with two exclusion prefixes; a vehicle with a
\* service 22 command matches the second exclusion prefix and an inclusion
\* prefix, and another vehicle was merged
C26_Witness ==
    /\ pc = "done"
    /\ Len(filter_prefix_exclusions) = 2
    /\ merge_log # <<>>
    /\ \E name \in DOMAIN workspace :
           /\ StartsWith(name, filter_prefix_exclusions[2])
           /\ MatchingGroups(name) # {}
           /\ \E c \in Range(FileCommands(workspace[name], 1)) : Service2122(c)

\* C30: a vehicle has one repository name in a run: every signal origin
\* entry and every command origin entry of a vehicle carries the vehicle's
\* directory name as 'repo', and the report has one repoContributions entry
\* per contributing vehicle, under its directory name.
C30_OneRepoNamePerVehicle ==
    pc = "done" =>
        /\ \A src \in AllSources(global_command_origins) :
               /\ src["repo"] \in Contributors
               /\ <<src["make"], src["model"]>> = SplitMakeModel(src["repo"])
        /\ \A src \in AllSources(global_signal_origins) :
               \E name \in Contributors :
                   /\ <<src["make"], src["model"]>> = SplitMakeModel(name)
                   /\ src["repo"] = name
        /\ DOMAIN report.repoContributions = Contributors

----------------------------------------------------------------------------
(* are_signals_equal applied to two arbitrary signals *)

UTFieldNames == {"id", "name", "description", "path", "comment", "fmt", "format"}

UTFieldValues(f) ==
    CASE f = "id"          -> {IdX, <<"Y">>}
      [] f = "name"        -> {<<"n">>, <<"m">>}
      [] f = "description" -> {<<"d">>}
      [] f = "path"        -> {<<"p">>}
      [] f = "comment"     -> {<<"c">>}
      [] f = "fmt"         -> {1, 2}
      [] f = "format"      -> {[len |-> 8], [len |-> 16], [len |-> 8, max |-> 1]}

UTEqualInit ==
    /\ ut_pc = "build"
    /\ ut_signal1 = <<>>
    /\ ut_signal2 = <<>>
    /\ ut_signal_id = <<>>
    /\ ut_new_prefix = <<>>
    /\ ut_filename = <<>>
    /\ ut_ret = <<>>
    /\ EUIdle
    /\ PVIdle
    /\ XIdle
    /\ CKIdle

UTSetField1 ==
    /\ ut_pc = "build"
    /\ Cardinality(DOMAIN ut_signal1) < MaxFields
    /\ \E f \in UTFieldNames \ DOMAIN ut_signal1 :
           \E v \in UTFieldValues(f) : ut_signal1' = Put(ut_signal1, f, v)
    /\ UNCHANGED <<ut_pc, ut_signal2, ut_signal_id, ut_new_prefix, ut_filename,
                   ut_ret, eu_vars, pv_vars, x_vars, ck_vars>>

UTSetField2 ==
    /\ ut_pc = "build"
    /\ Cardinality(DOMAIN ut_signal2) < MaxFields
    /\ \E f \in UTFieldNames \ DOMAIN ut_signal2 :
           \E v \in UTFieldValues(f) : ut_signal2' = Put(ut_signal2, f, v)
    /\ UNCHANGED <<ut_pc, ut_signal1, ut_signal_id, ut_new_prefix, ut_filename,
                   ut_ret, eu_vars, pv_vars, x_vars, ck_vars>>

UTCallEqual ==
    /\ ut_pc = "build"
    /\ ut_ret' = are_signals_equal(ut_signal1, ut_signal2)
    /\ ut_pc' = "returned"
    /\ UNCHANGED <<ut_signal1, ut_signal2, ut_signal_id, ut_new_prefix,
                   ut_filename, eu_vars, pv_vars, x_vars, ck_vars>>

UTEqualNext == UTSetField1 \/ UTSetField2 \/ UTCallEqual

SpecEqual == UTEqualInit /\ [][UTEqualNext]_vars

\* the attributes of a signal that count for equality
CoreAttributes(signal) ==
    (DOMAIN signal) \ {"id", "name", "description", "path", "comment"}

\* C18: are_signals_equal is true exactly when the two signals have the same
\* attributes and equal values once id, name, description, path and comment
\* are left out; the nested format block counts.
C18_EqualIffCoreAttributesEqual ==
    ut_pc = "returned" =>
        (ut_ret <=>
            /\ CoreAttributes(ut_signal1) = CoreAttributes(ut_signal2)
            /\ \A f \in CoreAttributes(ut_signal1) : ut_signal1[f] = ut_signal2[f])

\* C18 witness: two signals that differ in id and name and in nothing else,
\* with a nested format block, were found equal.
C18_Witness ==
    /\ ut_pc = "returned"
    /\ ut_ret = TRUE
    /\ DOMAIN ut_signal1 = {"id", "name", "format"}
    /\ DOMAIN ut_signal2 = {"id", "name", "format"}
    /\ ut_signal1["id"] # ut_signal2["id"]
    /\ ut_signal1["name"] # ut_signal2["name"]
    /\ ut_signal1["format"] = [len |-> 8, max |-> 1]

----------------------------------------------------------------------------
(* replace_signal_prefix applied to an arbitrary id and prefix *)

UTIdChars == {"A", "B", "_"}

UTPrefixInputs == {None, <<>>, <<"T">>, <<"T", "O">>}

UTPrefixInit ==
    /\ ut_pc = "build"
    /\ ut_signal1 = <<>>
    /\ ut_signal2 = <<>>
    /\ ut_signal_id = <<>>
    /\ ut_new_prefix = <<>>
    /\ ut_filename = <<>>
    /\ ut_ret = <<>>
    /\ EUIdle
    /\ PVIdle
    /\ XIdle
    /\ CKIdle

UTAddIdChar ==
    /\ ut_pc = "build"
    /\ ut_signal_id # None
    /\ Len(ut_signal_id) < MaxIdLen
    /\ \E c \in UTIdChars : ut_signal_id' = Append(ut_signal_id, c)
    /\ UNCHANGED <<ut_pc, ut_signal1, ut_signal2, ut_new_prefix, ut_filename,
                   ut_ret, eu_vars, pv_vars, x_vars, ck_vars>>

UTNoId ==
    /\ ut_pc = "build"
    /\ ut_signal_id = <<>>
    /\ ut_signal_id' = None
    /\ UNCHANGED <<ut_pc, ut_signal1, ut_signal2, ut_new_prefix, ut_filename,
                   ut_ret, eu_vars, pv_vars, x_vars, ck_vars>>

UTCallPrefix ==
    /\ ut_pc = "build"
    /\ \E p \in UTPrefixInputs :
           /\ ut_new_prefix' = p
           /\ ut_ret' = replace_signal_prefix(ut_signal_id, p)
    /\ ut_pc' = "returned"
    /\ UNCHANGED <<ut_signal1, ut_signal2, ut_signal_id, ut_filename,
                   eu_vars, pv_vars, x_vars, ck_vars>>

UTPrefixNext == UTAddIdChar \/ UTNoId \/ UTCallPrefix

SpecPrefix == UTPrefixInit /\ [][UTPrefixNext]_vars

\* C19: for a non-empty id with an underscore the result is the prefix
\* followed by the id from its first underscore on; for a non-empty id with no
\* underscore it is prefix + '_' + id; an empty or missing id, or an empty or
\* missing prefix, gives the id back.
C19_PrefixReplaced ==
    ut_pc = "returned" =>
        IF ut_signal_id \in {None, <<>>} \/ ut_new_prefix \in {None, <<>>}
        THEN ut_ret = ut_signal_id
        ELSE IF "_" \in Range(ut_signal_id)
             THEN \E i \in DOMAIN ut_signal_id :
                      /\ ut_signal_id[i] = "_"
                      /\ "_" \notin Range(SubSeq(ut_signal_id, 1, i - 1))
                      /\ ut_ret = ut_new_prefix
                                  \o SubSeq(ut_signal_id, i, Len(ut_signal_id))
             ELSE ut_ret = ut_new_prefix \o <<"_">> \o ut_signal_id

\* C19 witness: an id with two underscores got the prefix in place of the part
\* before the first one.
C19_Witness ==
    /\ ut_pc = "returned"
    /\ ut_signal_id = <<"A", "_", "B", "_">>
    /\ ut_new_prefix = <<"T", "O">>
    /\ ut_ret = <<"T", "O", "_", "B", "_">>

----------------------------------------------------------------------------
(* the origin entry of a signal that comes from a file of an arbitrary name *)

UTNameTokens ==
    {<<"2", "0", "1", "6">>, <<"-", "2", "0", "2", "0">>,
     <<"-", "2", "0", "2", "a">>, <<".", "j", "s", "o", "n">>,
     <<"d", "e", "f", "a", "u", "l", "t">>, <<"x">>}

UTYearInit ==
    /\ ut_pc = "build"
    /\ ut_signal1 = <<>>
    /\ ut_signal2 = <<>>
    /\ ut_signal_id = <<>>
    /\ ut_new_prefix = <<>>
    /\ ut_filename = <<>>
    /\ ut_ret = <<>>
    /\ EUIdle
    /\ PVIdle
    /\ XIdle
    /\ CKIdle

UTAddNameToken ==
    /\ ut_pc = "build"
    /\ \E t \in UTNameTokens :
           /\ Len(ut_filename) + Len(t) <= MaxNameLen
           /\ ut_filename' = ut_filename \o t
    /\ UNCHANGED <<ut_pc, ut_signal1, ut_signal2, ut_signal_id, ut_new_prefix,
                   ut_ret, eu_vars, pv_vars, x_vars, ck_vars>>

\* process_signalsets over one file of that name with one signal X; the
\* result is the origin entry of X
UTCallOrigin ==
    /\ ut_pc = "build"
    /\ ut_ret' =
           process_signalsets(
               << <<[commands |-> <<[hdr |-> Hdr7E0, cmd |-> Cmd22,
                                     signals |-> <<[id |-> IdX, fmt |-> 1]>>]>>],
                    ut_filename>> >>,
               MakeT, ModelC, None)["_signal_origins"][IdX][1]
    /\ ut_pc' = "returned"
    /\ UNCHANGED <<ut_signal1, ut_signal2, ut_signal_id, ut_new_prefix,
                   ut_filename, eu_vars, pv_vars, x_vars, ck_vars>>

UTYearNext == UTAddNameToken \/ UTCallOrigin

SpecYear == UTYearInit /\ [][UTYearNext]_vars

\* the name is <4 digits>-<4 digits>.json and nothing else
IsYearRangeName(name) ==
    /\ Len(name) = 14
    /\ \A i \in (1..4) \cup (6..9) :
           name[i] \in {"0", "1", "2", "3", "4", "5", "6", "7", "8", "9"}
    /\ name[5] = "-"
    /\ SubSeq(name, 10, 14) = <<".", "j", "s", "o", "n">>

\* C20: an origin entry has yearRange exactly when the file name is
\* <4 digits>-<4 digits>.json, with start and end the two numbers; any other
\* name (extra characters before the first year included) gives no yearRange.
C20_YearRangeIffNameForm ==
    ut_pc = "returned" =>
        /\ Has(ut_ret, "yearRange") <=> IsYearRangeName(ut_filename)
        /\ Has(ut_ret, "yearRange") =>
               ut_ret["yearRange"] =
                   [start |-> StrToInt(SubSeq(ut_filename, 1, 4)),
                    end   |-> StrToInt(SubSeq(ut_filename, 6, 9))]

----------------------------------------------------------------------------
(* get_command_id applied to two arbitrary service 21/22 commands *)

Sid21 == <<"2", "1">>
Cmd21 == << <<Sid21, Pid0103>> >>
Eax01 == <<"0", "1">>
IdY   == <<"Y">>

KeyFrom == <<"f", "r", "o", "m">>
KeyTo   == <<"t", "o">>
Year2010 == <<"2", "0", "1", "0">>
Year2015 == <<"2", "0", "1", "5">>

\* the keys of a mapping given as its items
ItemKeys(items) == {items[i][1] : i \in DOMAIN items}

CKKeyInit ==
    /\ ck_pc = "build"
    /\ ck_cmd1 = [hdr |-> Hdr7E0, cmd |-> Cmd22, signals |-> <<[id |-> IdX, fmt |-> 1]>>]
    /\ ck_cmd2 = [hdr |-> Hdr7E0, cmd |-> Cmd22, signals |-> <<[id |-> IdY, fmt |-> 1]>>]
    /\ ck_data1 = <<>>
    /\ ck_data2 = <<>>
    /\ ck_ret = <<>>
    /\ EUIdle
    /\ PVIdle
    /\ XIdle
    /\ UTIdle

\* the commands differ in 'hdr', 'eax' or the service of 'cmd'
CKSetField ==
    /\ ck_pc = "build"
    /\ ~Has(ck_cmd2, "filter")
    /\ \/ ck_cmd2' = Put(ck_cmd2, "hdr", Hdr7E1)
       \/ ck_cmd2' = Put(ck_cmd2, "eax", Eax01)
       \/ ck_cmd2' = Put(ck_cmd2, "cmd", Cmd21)
    /\ ck_cmd2' # ck_cmd2
    /\ UNCHANGED <<ck_pc, ck_cmd1, ck_data1, ck_data2, ck_ret,
                   eu_vars, pv_vars, x_vars, ut_vars>>

\* cmd['filter'][key] = value, for the first command
CKAddFilterItem1 ==
    /\ ck_pc = "build"
    /\ \E key \in {KeyFrom, KeyTo} \ ItemKeys(Get(ck_cmd1, "filter", <<>>)),
          value \in {Year2010, Year2015} :
           ck_cmd1' = Put(ck_cmd1, "filter",
                          Append(Get(ck_cmd1, "filter", <<>>), <<key, value>>))
    /\ UNCHANGED <<ck_pc, ck_cmd2, ck_data1, ck_data2, ck_ret,
                   eu_vars, pv_vars, x_vars, ut_vars>>

\* cmd['filter'][key] = value, for the second command
CKAddFilterItem2 ==
    /\ ck_pc = "build"
    /\ \E key \in {KeyFrom, KeyTo} \ ItemKeys(Get(ck_cmd2, "filter", <<>>)),
          value \in {Year2010, Year2015} :
           ck_cmd2' = Put(ck_cmd2, "filter",
                          Append(Get(ck_cmd2, "filter", <<>>), <<key, value>>))
    /\ UNCHANGED <<ck_pc, ck_cmd1, ck_data1, ck_data2, ck_ret,
                   eu_vars, pv_vars, x_vars, ut_vars>>

\* get_command_id of both commands, and process_signalsets of one document
\* that lists the two
CKCallKey ==
    /\ ck_pc = "build"
    /\ ck_ret' = [id1 |-> get_command_id(ck_cmd1),
                  id2 |-> get_command_id(ck_cmd2),
                  merged |-> process_signalsets(
                                << <<[commands |-> <<ck_cmd1, ck_cmd2>>], FileA>> >>,
                                MakeT, ModelC, None)]
    /\ ck_pc' = "returned"
    /\ UNCHANGED <<ck_cmd1, ck_cmd2, ck_data1, ck_data2,
                   eu_vars, pv_vars, x_vars, ut_vars>>

CKKeyNext == CKSetField \/ CKAddFilterItem1 \/ CKAddFilterItem2 \/ CKCallKey

SpecKey == CKKeyInit /\ [][CKKeyNext]_vars

\* a mapping given as its items, as a dict: the same keys and values are the
\* same dict in any key order
AsDict(items) ==
    [key \in ItemKeys(items) |->
        items[CHOOSE i \in DOMAIN items : items[i][1] = key][2]]

\* the 'filter' values of the two commands are structurally equal
SameFilter(cmd1, cmd2) ==
    /\ Has(cmd1, "filter") <=> Has(cmd2, "filter")
    /\ Has(cmd1, "filter") => AsDict(cmd1["filter"]) = AsDict(cmd2["filter"])

\* C21: two service 21/22 commands with equal hdr, eax, service id and
\* parameter id and structurally equal 'filter' values (the same keys and
\* values in any key order) get the same key from get_command_id, and
\* process_signalsets merges them into one command.
C21_KeyIgnoresFilterKeyOrder ==
    (/\ ck_pc = "returned"
     /\ Get(ck_cmd1, "hdr", <<>>) = Get(ck_cmd2, "hdr", <<>>)
     /\ Get(ck_cmd1, "eax", <<>>) = Get(ck_cmd2, "eax", <<>>)
     /\ ck_cmd1["cmd"] = ck_cmd2["cmd"]
     /\ SameFilter(ck_cmd1, ck_cmd2))
    => /\ ck_ret.id1 = ck_ret.id2
       /\ Len(ck_ret.merged["commands"]) = 1

----------------------------------------------------------------------------
(* calculate_hash applied to two arbitrary documents *)

KeyA == <<"a">>
KeyB == <<"b">>

\* the values a key of a document may hold: scalars, lists in two orders and
\* nested dicts with their keys in two orders
HashValues ==
    <<JStr(<<"1">>), JInt(1), JInt(2), JBool(TRUE),
      JList(<<JInt(1), JInt(2)>>), JList(<<JInt(2), JInt(1)>>),
      JDict(<< <<KeyA, JInt(1)>>, <<KeyB, JInt(2)>> >>),
      JDict(<< <<KeyB, JInt(2)>>, <<KeyA, JInt(1)>> >>),
      JDict(<< <<KeyA, JInt(2)>>, <<KeyB, JInt(1)>> >>),
      JList(<<JDict(<< <<KeyA, JInt(1)>>, <<KeyB, JInt(2)>> >>)>>),
      JList(<<JDict(<< <<KeyB, JInt(2)>>, <<KeyA, JInt(1)>> >>)>>)>>

CKHashInit ==
    /\ ck_pc = "build"
    /\ ck_cmd1 = <<>>
    /\ ck_cmd2 = <<>>
    /\ ck_data1 = JDict(<<>>)
    /\ ck_data2 = JDict(<<>>)
    /\ ck_ret = <<>>
    /\ EUIdle
    /\ PVIdle
    /\ XIdle
    /\ UTIdle

\* data[key] = value, for the first document
CKSetItem1 ==
    /\ ck_pc = "build"
    /\ Len(ck_data1[2]) < MaxHashKeys
    /\ \E key \in {KeyA, KeyB} \ ItemKeys(ck_data1[2]), n \in DOMAIN HashValues :
           ck_data1' = JDict(Append(ck_data1[2], <<key, HashValues[n]>>))
    /\ UNCHANGED <<ck_pc, ck_cmd1, ck_cmd2, ck_data2, ck_ret,
                   eu_vars, pv_vars, x_vars, ut_vars>>

\* data[key] = value, for the second document
CKSetItem2 ==
    /\ ck_pc = "build"
    /\ Len(ck_data2[2]) < MaxHashKeys
    /\ \E key \in {KeyA, KeyB} \ ItemKeys(ck_data2[2]), n \in DOMAIN HashValues :
           ck_data2' = JDict(Append(ck_data2[2], <<key, HashValues[n]>>))
    /\ UNCHANGED <<ck_pc, ck_cmd1, ck_cmd2, ck_data1, ck_ret,
                   eu_vars, pv_vars, x_vars, ut_vars>>

CKCallHash ==
    /\ ck_pc = "build"
    /\ ck_ret' = [hash1 |-> calculate_hash(ck_data1),
                  hash2 |-> calculate_hash(ck_data2)]
    /\ ck_pc' = "returned"
    /\ UNCHANGED <<ck_cmd1, ck_cmd2, ck_data1, ck_data2,
                   eu_vars, pv_vars, x_vars, ut_vars>>

CKHashNext == CKSetItem1 \/ CKSetItem2 \/ CKCallHash

SpecHash == CKHashInit /\ [][CKHashNext]_vars

\* a document without the order of the keys of its dicts: a dict is the
\* function from its keys to its values, a list keeps its order
RECURSIVE Unordered(_)
Unordered(value) ==
    CASE value[1] = "list" ->
             <<"list", [i \in DOMAIN value[2] |-> Unordered(value[2][i])]>>
      [] value[1] = "dict" ->
             <<"dict",
               [key \in ItemKeys(value[2]) |->
                   Unordered(value[2][CHOOSE i \in DOMAIN value[2] :
                                         value[2][i][1] = key][2])]>>
      [] OTHER -> value

\* C22: two documents hash equal exactly when they are the same up to the
\* order of the keys of their dicts, at any depth: a different key order
\* changes nothing, a different value under a key or a different list order
\* gives another serialization.
C22_HashIgnoresKeyOrderOnly ==
    ck_pc = "returned" =>
        (ck_ret.hash1 = ck_ret.hash2 <=> Unordered(ck_data1) = Unordered(ck_data2))

\* two documents with the same keys and values, written in another key order
\* at the top and inside a nested dict, hash equal
C22_Witness ==
    /\ ck_pc = "returned"
    /\ Len(ck_data1[2]) = 2
    /\ Len(ck_data2[2]) = 2
    /\ ck_data1[2][1][1] = ck_data2[2][2][1]
    /\ ck_data1[2][1][2] # ck_data2[2][2][2]
    /\ Unordered(ck_data1) = Unordered(ck_data2)
    /\ ck_ret.hash1 = ck_ret.hash2

====
